---- MODULE Spec2Model ----
(***************************************************************************)
(* ThinkMark: the pipeline state (core/models.py), the crawler's item      *)
(* pipelines and hierarchy builder (scrape/), and the adapter that turns a *)
(* crawl into a PipelineState (scrape/adapter.py).                         *)
(*                                                                         *)
(* Representation.  A Python str is a sequence of atoms, each atom a short *)
(* run of characters ("a", "/", "https://").  Optional[T] is a sequence of *)
(* length 0 (None) or 1.  A Python dict, which keeps insertion order, is a *)
(* sequence of [k |-> key, v |-> value] entries with distinct keys.        *)
(***************************************************************************)
EXTENDS Integers, Sequences, FiniteSets, TLC

VARIABLES
    documents,      \* PipelineState.documents : dict id -> Document
    url_map,        \* PipelineState.url_map   : dict url -> id
    hierarchy,      \* PipelineState.hierarchy : {} or the built tree
    disk,           \* files under output_dir  : function file name -> data
    loaded,         \* the state returned by PipelineState.load, if any
    op,             \* the operation that ran last, and how many documents were added
    urls_map,       \* HtmlSaverPipeline.urls_map : list of {url, file, title}
    page_info,      \* HtmlSaverPipeline.page_info : dict url -> {url, title, page}
    parent_map,     \* HtmlSaverPipeline.parent_map : dict child url -> parent url
    out_files,      \* files under the crawler's OUTPUT_DIR
    frontier,       \* requests scheduled and not yet answered
    seen,           \* urls the scheduler's duplicate filter has let through
    deliveries,     \* the PageItems handed to process_item, in order
    closed,         \* the pipelines whose close_spider has run
    root_url,       \* DocsSpider.root_url, None before a spider exists
    page_hierarchy, \* the tree build_tree returned last, if any
    paragraph_hashes, \* html_cleaner.paragraph_hashes : dict line hash -> count
    skip_hashes,    \* html_cleaner.skip_hashes : set of line hashes
    input,          \* the arguments of the call under study, and how far it is
    output          \* what the calls under study have returned or raised

stateVars == <<documents, url_map, hierarchy, disk, loaded, op>>
crawlVars == <<urls_map, page_info, parent_map, out_files, frontier, seen,
               deliveries, closed, root_url, page_hierarchy>>
callVars == <<paragraph_hashes, skip_hashes, input, output>>
vars == <<stateVars, crawlVars, callVars>>

-----------------------------------------------------------------------------
(* Python values *)

None == <<>>
Some(x) == <<x>>

DictKeys(d) == {d[i].k : i \in DOMAIN d}
DictGet(d, key, dflt) ==
    IF key \in DictKeys(d)
    THEN d[CHOOSE i \in DOMAIN d : d[i].k = key].v
    ELSE dflt
DictPut(d, key, val) ==
    IF key \in DictKeys(d)
    THEN [i \in DOMAIN d |-> IF d[i].k = key THEN [k |-> key, v |-> val] ELSE d[i]]
    ELSE Append(d, [k |-> key, v |-> val])
DictDel(d, key) == SelectSeq(d, LAMBDA e : e.k # key)

\* Code-point order of the characters that occur in titles.
Alphabet == <<" ", "-", "A", "B", "C", "H", "S", "a", "b", "e", "m", "o", "s">>
AtomRank(a) == CHOOSE i \in DOMAIN Alphabet : Alphabet[i] = a

RECURSIVE StrLess(_, _)
\* str.__lt__ : lexicographic, a proper prefix is smaller.
StrLess(s, t) ==
    IF t = <<>> THEN FALSE
    ELSE IF s = <<>> THEN TRUE
    ELSE IF Head(s) = Head(t) THEN StrLess(Tail(s), Tail(t))
    ELSE AtomRank(Head(s)) < AtomRank(Head(t))

RECURSIVE SortedByTitle(_)
\* list.sort / sorted with key = title.  The sort is stable: an element goes
\* just before the first element already placed whose title is greater.
SortedByTitle(nodes) ==
    IF nodes = <<>> THEN <<>>
    ELSE LET n == Len(nodes)
             init == SortedByTitle(SubSeq(nodes, 1, n - 1))
             x == nodes[n]
             greater == {i \in DOMAIN init : StrLess(x.title, init[i].title)}
             at == IF greater = {} THEN Len(init)
                   ELSE (CHOOSE i \in greater : \A j \in greater : i <= j) - 1
         IN  SubSeq(init, 1, at) \o <<x>> \o SubSeq(init, at + 1, Len(init))

\* All orders in which the members of a finite set can be listed.
Orderings(S) ==
    {s \in [1..Cardinality(S) -> S] : \A i, j \in DOMAIN s : s[i] = s[j] => i = j}

-----------------------------------------------------------------------------
(* core/models.py : Document and PipelineState *)

Document(id, url, title, content, metadata, parent_id, children_ids) ==
    [id |-> id, url |-> url, title |-> title, content |-> content,
     metadata |-> metadata, parent_id |-> parent_id,
     children_ids |-> children_ids]

\* Document.filename
filename(doc) == doc.id \o <<".md">>

\* Python truth of an Optional[str] : None and "" are false.
Truthy(opt) == opt # None /\ opt # Some(<<>>)

\* add_document that records the url only for an id it has not seen.
add_document_NewIdOnly(st, doc) ==
    [documents |-> DictPut(st.documents, doc.id, doc),
     url_map   |-> IF doc.id \in DictKeys(st.documents) THEN st.url_map
                   ELSE DictPut(st.url_map, doc.url, doc.id)]

\* PipelineState.add_document
add_document(st, doc) ==
    [documents |-> DictPut(st.documents, doc.id, doc),
     url_map   |-> DictPut(st.url_map, doc.url, doc.id)]

RECURSIVE _build_hierarchy_node(_, _, _)
RECURSIVE ChildNodes(_, _, _)
\* _build_hierarchy_node that answers a visited document with a childless
\* reference to it instead of None.
_build_hierarchy_node_LeafRef(docs, doc, visited_ids) ==
    IF doc.id \in visited_ids
    THEN Some([id |-> doc.id, title |-> doc.title, url |-> doc.url,
               page |-> filename(doc), children |-> <<>>])
    ELSE Some([id       |-> doc.id,
               title    |-> doc.title,
               url      |-> doc.url,
               page     |-> filename(doc),
               children |-> SortedByTitle(
                    ChildNodes(docs, doc.children_ids, visited_ids \cup {doc.id}))])

\* PipelineState._build_hierarchy_node : None when doc is in visited_ids,
\* otherwise the node, its children built with a copy of visited_ids.
_build_hierarchy_node(docs, doc, visited_ids) ==
    IF doc.id \in visited_ids THEN None
    ELSE Some([id       |-> doc.id,
               title    |-> doc.title,
               url      |-> doc.url,
               page     |-> filename(doc),
               children |-> SortedByTitle(
                    ChildNodes(docs, doc.children_ids, visited_ids \cup {doc.id}))])

\* The loop over doc.children_ids : ids with no document and children that
\* come back None are left out.
ChildNodes(docs, ids, visited_ids) ==
    IF ids = <<>> THEN <<>>
    ELSE LET child == DictGet(docs, Head(ids), None)
         IN  (IF child = None THEN <<>>
              ELSE _build_hierarchy_node(docs, child, visited_ids))
             \o ChildNodes(docs, Tail(ids), visited_ids)

RECURSIVE RootNodes(_, _, _)
\* The loop over root_docs : every root is built with the one visited_ids
\* set, which therefore holds the ids of the roots built before it.
RootNodes(docs, roots, visited_ids) ==
    IF roots = <<>> THEN <<>>
    ELSE _build_hierarchy_node(docs, Head(roots), visited_ids)
         \o RootNodes(docs, Tail(roots), visited_ids \cup {Head(roots).id})

\* build_hierarchy that takes every document as a root, parent_id or not.
build_hierarchy_AllRoots(docs) ==
    [title |-> <<"Documentation Root">>,
     children |-> RootNodes(docs,
                     SortedByTitle([i \in DOMAIN docs |-> docs[i].v]), {})]

\* PipelineState.build_hierarchy
build_hierarchy(docs) ==
    LET values == [i \in DOMAIN docs |-> docs[i].v]
        root_docs == SortedByTitle(SelectSeq(values, LAMBDA d : ~Truthy(d.parent_id)))
    IN  [title |-> <<"Documentation Root">>,
         children |-> RootNodes(docs, root_docs, {})]

\* Names of the files PipelineState.save writes under output_dir.
HierarchyFile == <<"hierarchy.json">>
UrlsMapFile == <<"urls_map.jsonl">>
ContentFile(id) == <<"content/">> \o id \o <<".md">>
MetaFile(id) == <<"content/">> \o id \o <<".meta", ".json">>

\* open(path, "r").read() : text mode turns "\r\n" and "\r" into "\n".
ReadText(s) == [i \in DOMAIN s |-> IF s[i] \in {"CRLF", "CR"} THEN "LF" ELSE s[i]]

\* PipelineState.save : the files after the call.  hierarchy.json and each
\* <id>.meta.json hold JSON of values made of str, list and str-keyed dict,
\* which json.load gives back unchanged; only the metadata dict is written for
\* a document, never its title, parent_id or children_ids.
save(st, files) ==
    LET ids == DictKeys(st.documents)
        written == {HierarchyFile, UrlsMapFile}
                   \cup {ContentFile(id) : id \in ids} \cup {MetaFile(id) : id \in ids}
        data(n) ==
            IF n = HierarchyFile THEN st.hierarchy
            ELSE IF n = UrlsMapFile
            THEN [i \in DOMAIN st.url_map |->
                    [url |-> st.url_map[i].k, id |-> st.url_map[i].v]]
            ELSE LET id == CHOOSE x \in ids : n \in {ContentFile(x), MetaFile(x)}
                     doc == DictGet(st.documents, id, None)
                 IN  IF n = ContentFile(id) THEN doc.content ELSE doc.metadata
    IN  [n \in DOMAIN files \cup written |->
            IF n \in written THEN data(n) ELSE files[n]]

\* content_dir.glob("*.meta.json")
MetaFiles(files) ==
    {n \in DOMAIN files : Len(n) >= 3 /\ n[1] = "content/"
                          /\ n[Len(n) - 1] = ".meta" /\ n[Len(n)] = ".json"}

\* meta_file.stem.replace(".meta", "")
StemId(n) == SelectSeq(SubSeq(n, 2, Len(n) - 1), LAMBDA a : a # ".meta")

RECURSIVE LoadUrlMap(_, _)
LoadUrlMap(entries, acc) ==
    IF entries = <<>> THEN acc
    ELSE LoadUrlMap(Tail(entries), DictPut(acc, Head(entries).url, Head(entries).id))

RECURSIVE LoadDocuments(_, _, _, _)
\* The loop of PipelineState.load over the meta files, in the order glob
\* yields them.
LoadDocuments(files, metas, umap, acc) ==
    IF metas = <<>> THEN acc
    ELSE LET doc_id == StemId(Head(metas))
             metadata == files[Head(metas)]
             urls == {i \in DOMAIN umap : umap[i].v = doc_id}
             get(key, dflt) == IF key \in DOMAIN metadata THEN metadata[key] ELSE dflt
             doc == Document(
                 doc_id,
                 IF urls = {} THEN <<>>
                 ELSE umap[CHOOSE i \in urls : \A j \in urls : i <= j].k,
                 get("title", <<>>),
                 ReadText(files[ContentFile(doc_id)]),
                 metadata,
                 IF "parent_id" \in DOMAIN metadata THEN Some(metadata["parent_id"]) ELSE None,
                 get("children_ids", <<>>))
         IN  LoadDocuments(files, Tail(metas), umap,
                 IF ContentFile(doc_id) \in DOMAIN files
                 THEN DictPut(acc, doc_id, doc) ELSE acc)

\* PipelineState.load, with the meta files listed in the order `metas`.
load(files, metas) ==
    LET umap == IF UrlsMapFile \in DOMAIN files
                THEN LoadUrlMap(files[UrlsMapFile], <<>>) ELSE <<>>
    IN  [url_map   |-> umap,
         hierarchy |-> IF HierarchyFile \in DOMAIN files THEN files[HierarchyFile] ELSE <<>>,
         documents |-> LoadDocuments(files, metas, umap, <<>>)]

-----------------------------------------------------------------------------
(* The PipelineState driven through its methods *)

MaxAdds == 2

StateIds == {<<"d1">>, <<"d2">>}
StateUrls == {<<"https://", "s", "/", "a">>, <<"https://", "s", "/", "b">>}
StateTitles == {<<"A">>, <<"B">>}
StateMetadata(title) == {[type |-> <<"html">>], [type |-> <<"markdown">>, title |-> title]}

StateDocs ==
    {Document(id, url, title, <<"x">>, m, parent, kids) :
        id \in StateIds, url \in StateUrls, title \in {<<"A">>},
        m \in StateMetadata(<<"A">>), parent \in {None}, kids \in {<<>>}}
    \cup
    {Document(id, <<"https://", "s", "/", "b">>, <<"B">>, content, [type |-> <<"html">>], parent, kids) :
        id \in StateIds, content \in {<<"x", "CRLF">>},
        parent \in {None, Some(<<"d1">>)}, kids \in {<<>>, <<<<"d2">>>>}}

\* No crawl has been run: the crawler's fields are empty.
NoCrawl ==
    /\ urls_map = <<>>
    /\ page_info = <<>>
    /\ parent_map = <<>>
    /\ out_files = <<>>
    /\ frontier = {}
    /\ seen = {}
    /\ deliveries = <<>>
    /\ closed = {}
    /\ root_url = None
    /\ page_hierarchy = None

\* No call under study has been made.
NoCalls ==
    /\ paragraph_hashes = <<>>
    /\ skip_hashes = {}
    /\ input = <<>>
    /\ output = <<>>

CurrentState == [documents |-> documents, url_map |-> url_map, hierarchy |-> hierarchy]

InitState ==
    /\ NoCalls
    /\ documents = <<>>
    /\ url_map = <<>>
    /\ hierarchy = <<>>
    /\ disk = <<>>
    /\ loaded = None
    /\ op = <<"init", 0>>
    /\ NoCrawl

AddDocument ==
    /\ UNCHANGED callVars
    /\ op[2] < MaxAdds
    /\ \E doc \in StateDocs :
          LET st == add_document(CurrentState, doc)
          IN  /\ documents' = st.documents
              /\ url_map' = st.url_map
    /\ op' = <<"add_document", op[2] + 1>>
    /\ UNCHANGED <<hierarchy, disk, loaded>>
    /\ UNCHANGED crawlVars

BuildHierarchy ==
    /\ UNCHANGED callVars
    /\ hierarchy' = build_hierarchy(documents)
    /\ op' = <<"build_hierarchy", op[2]>>
    /\ UNCHANGED <<documents, url_map, disk, loaded>>
    /\ UNCHANGED crawlVars

Save ==
    /\ UNCHANGED callVars
    /\ disk' = save(CurrentState, disk)
    /\ op' = <<"save", op[2]>>
    /\ UNCHANGED <<documents, url_map, hierarchy, loaded>>
    /\ UNCHANGED crawlVars

Load ==
    /\ UNCHANGED callVars
    /\ \E metas \in Orderings(MetaFiles(disk)) :
          loaded' = Some(load(disk, metas))
    /\ op' = <<"load", op[2]>>
    /\ UNCHANGED <<documents, url_map, hierarchy, disk>>
    /\ UNCHANGED crawlVars

NextState == AddDocument \/ BuildHierarchy \/ Save \/ Load

SpecState == InitState /\ [][NextState]_vars

-----------------------------------------------------------------------------
(* build_hierarchy on arbitrary documents *)

MaxChildEntries == 3

HierIds == <<(<<"h1">>), (<<"h2">>), (<<"h3">>)>>
\* Ids that children_ids may list: the documents' and one with no document.
ListedIds == {HierIds[i] : i \in DOMAIN HierIds} \cup {<<"h0">>}
ChildLists(n) == UNION {[1..k -> ListedIds] : k \in 0..n}
HierUrl(id) == <<"https://", "s", "/">> \o id

RECURSIVE AddAll(_, _)
\* add_document for each document of a list, in order.
AddAll(st, docs) ==
    IF docs = <<>> THEN st ELSE AddAll(add_document(st, Head(docs)), Tail(docs))

InitHier ==
    /\ NoCalls
    /\ \E titles \in [DOMAIN HierIds -> StateTitles] :
       \E parents \in [DOMAIN HierIds -> {None, Some(HierIds[1])}] :
       \E c1 \in ChildLists(MaxChildEntries) :
       \E c2 \in ChildLists(MaxChildEntries - Len(c1)) :
       \E c3 \in ChildLists(MaxChildEntries - Len(c1) - Len(c2)) :
          LET kids == <<c1, c2, c3>>
              st == AddAll([documents |-> <<>>, url_map |-> <<>>],
                        [i \in DOMAIN HierIds |->
                            Document(HierIds[i], HierUrl(HierIds[i]), titles[i], <<"x">>,
                                     [type |-> <<"html">>], parents[i], kids[i])])
          IN  /\ documents = st.documents
              /\ url_map = st.url_map
    /\ hierarchy = <<>>
    /\ disk = <<>>
    /\ loaded = None
    /\ op = <<"init", 0>>
    /\ NoCrawl

NextHier == BuildHierarchy

SpecHier == InitHier /\ [][NextHier]_vars

-----------------------------------------------------------------------------
(* utils/url.py.  A url string starts with its scheme atom, "https://" or  *)
(* "http://"; the other atoms are single characters.                       *)

\* Index of the first atom of s that is in S, Len(s) + 1 when there is none.
FirstIndex(s, S) ==
    LET hits == {i \in DOMAIN s : s[i] \in S}
    IN  IF hits = {} THEN Len(s) + 1 ELSE CHOOSE i \in hits : \A j \in hits : i <= j

\* urlparse, last step: the params are what follows the first ";" of the
\* last path segment.
SplitParams(scheme, netloc, full, query, fragment) ==
    LET slashes == {i \in DOMAIN full : full[i] = "/"}
        semis == {i \in DOMAIN full : full[i] = ";" /\ \A j \in slashes : j < i}
        semi == IF semis = {} THEN Len(full) + 1 ELSE CHOOSE i \in semis : \A j \in semis : i <= j
    IN  [scheme   |-> scheme,
         netloc   |-> netloc,
         path     |-> SubSeq(full, 1, semi - 1),
         params   |-> SubSeq(full, semi + 1, Len(full)),
         query    |-> query,
         fragment |-> fragment]

\* urlparse, third step: with a scheme the netloc runs to the first "/".
SplitNetloc(scheme, r2, query, fragment) ==
    IF scheme # <<>>
    THEN SplitParams(scheme, SubSeq(r2, 1, FirstIndex(r2, {"/"}) - 1),
                     SubSeq(r2, FirstIndex(r2, {"/"}), Len(r2)), query, fragment)
    ELSE SplitParams(scheme, <<>>, r2, query, fragment)

\* urlparse, second step: the query is what follows the first "?".
SplitQuery(scheme, r1, fragment) ==
    SplitNetloc(scheme, SubSeq(r1, 1, FirstIndex(r1, {"?"}) - 1),
                SubSeq(r1, FirstIndex(r1, {"?"}) + 1, Len(r1)), fragment)

\* urlparse, first step: the fragment is what follows the first "#".
SplitFragment(scheme, rest) ==
    SplitQuery(scheme, SubSeq(rest, 1, FirstIndex(rest, {"#"}) - 1),
               SubSeq(rest, FirstIndex(rest, {"#"}) + 1, Len(rest)))

\* urllib.parse.urlparse : scheme, netloc, path, params, query, fragment.
urlparse(u) ==
    IF u # <<>> /\ u[1] \in {"https://", "http://"}
    THEN SplitFragment(<<u[1]>>, Tail(u))
    ELSE SplitFragment(<<>>, u)

\* ParseResult.geturl : empty params, query and fragment are left out.
geturl(p) ==
    LET url == p.path \o (IF p.params # <<>> THEN <<";">> \o p.params ELSE <<>>)
        rooted == IF p.scheme # <<>> /\ url # <<>> /\ url[1] # "/"
                  THEN <<"/">> \o url ELSE url
    IN  p.scheme \o p.netloc \o rooted
        \o (IF p.query # <<>> THEN <<"?">> \o p.query ELSE <<>>)
        \o (IF p.fragment # <<>> THEN <<"#">> \o p.fragment ELSE <<>>)

RECURSIVE RStrip(_, _)
\* str.rstrip(c)
RStrip(s, c) ==
    IF s # <<>> /\ s[Len(s)] = c THEN RStrip(SubSeq(s, 1, Len(s) - 1), c) ELSE s

\* The end of normalize_url: the parsed url put together again without
\* fragment and params, and without trailing slash on a path that is not "/".
Renormalized(parsed) ==
    geturl([parsed EXCEPT
              !.path = IF parsed.path # <<"/">> /\ parsed.path # <<>>
                          /\ parsed.path[Len(parsed.path)] = "/"
                       THEN RStrip(parsed.path, "/") ELSE parsed.path,
              !.fragment = <<>>,
              !.params = <<>>])

\* normalize_url
normalize_url(u) == Renormalized(urlparse(SubSeq(u, 1, FirstIndex(u, {"#"}) - 1)))

\* slugify.slugify on lower-case text: every run of characters that are not
\* letters or digits becomes one "-", and none is left at either end.
slugify(s) ==
    LET sep(a) == a \in {"/", "-", ".", "_", ":", ";", "?", "#", "=", "&", " "}
        keep == {i \in DOMAIN s : ~sep(s[i]) \/ (i > 1 /\ ~sep(s[i - 1]))}
        F[i \in 0..Len(s)] ==
            IF i = 0 THEN <<>>
            ELSE IF i \in keep THEN Append(F[i - 1], IF sep(s[i]) THEN "-" ELSE s[i])
            ELSE F[i - 1]
    IN  RStrip(F[Len(s)], "-")

\* The file name url_to_filename makes of a netloc and a path.
FileNameOf(netloc, path) ==
    IF path # <<>>
    THEN slugify(IF netloc # <<>> THEN netloc ELSE <<"s", "i", "t", "e">>)
         \o <<"-">> \o slugify(path) \o <<".html">>
    ELSE slugify(IF netloc # <<>> THEN netloc ELSE <<"s", "i", "t", "e">>) \o <<".html">>

\* str.strip(c)
Strip(s, c) == RStrip(SubSeq(s, FirstIndex(s, {a \in {s[i] : i \in DOMAIN s} : a # c}), Len(s)), c)

\* url_to_filename(url) (is_dir = False)
url_to_filename(url) == FileNameOf(urlparse(url).netloc, Strip(urlparse(url).path, "/"))

\* url_to_filename(url).replace(".html", "") : the document id of a url.
UrlToId(url) == SelectSeq(url_to_filename(url), LAMBDA a : a # ".html")

-----------------------------------------------------------------------------
(* scrape/hierarchy.py and scrape/pipelines/hierarchy.py : the page tree *)

\* len(str) : the scheme atoms stand for several characters.
StrLen(s) ==
    LET AtomLen(a) == IF a = "https://" THEN 8 ELSE IF a = "http://" THEN 7 ELSE 1
        F[i \in 0..Len(s)] == IF i = 0 THEN 0 ELSE F[i - 1] + AtomLen(s[i])
    IN  F[Len(s)]

\* children_map[parent] : the children of parent, in the order of edges; an
\* edge counts only when both its ends are pages.
ChildrenOf(pages, edges, parent) ==
    LET es == SelectSeq(edges, LAMBDA e : /\ e.v = parent
                                          /\ e.k \in DictKeys(pages)
                                          /\ e.v \in DictKeys(pages))
    IN  [i \in DOMAIN es |-> es[i].k]

\* The node dict build_subtree makes for url.
PageNode(pages, url, children) ==
    LET pg == DictGet(pages, url, None)
    IN  [title    |-> pg.title,
         url      |-> url,
         page     |-> IF "page" \in DOMAIN pg THEN pg.page ELSE url \o <<".md">>,
         children |-> children]

RECURSIVE build_subtree(_, _, _, _)
RECURSIVE SubtreeList(_, _, _, _)
\* build_subtree with the one `visited` set it reads and grows: a visited url
\* gives a childless reference.  Result: the node and the set afterwards.
build_subtree(pages, edges, url, visited) ==
    IF url \in visited
    THEN [node |-> PageNode(pages, url, <<>>), visited |-> visited]
    ELSE LET r == SubtreeList(pages, edges, ChildrenOf(pages, edges, url),
                              visited \cup {url})
         IN  [node |-> PageNode(pages, url, r.nodes), visited |-> r.visited]

\* build_subtree for each url of a list, left to right.
SubtreeList(pages, edges, urls, visited) ==
    IF urls = <<>> THEN [nodes |-> <<>>, visited |-> visited]
    ELSE LET h == build_subtree(pages, edges, Head(urls), visited)
             t == SubtreeList(pages, edges, Tail(urls), h.visited)
         IN  [nodes |-> <<h.node>> \o t.nodes, visited |-> t.visited]

\* root_urls of build_tree : the pages that are no key of edges, or the first
\* page when there is none.
RootUrls(pages, edges) ==
    LET keys == [i \in DOMAIN pages |-> pages[i].k]
        explicit == SelectSeq(keys, LAMBDA u : u \notin DictKeys(edges))
    IN  IF explicit = <<>> /\ pages # <<>> THEN <<keys[1]>> ELSE explicit

\* build_tree
build_tree(pages, edges) ==
    LET root_urls == RootUrls(pages, edges)
    IN  IF Len(root_urls) > 1
        THEN LET shortest == {i \in DOMAIN root_urls :
                                \A j \in DOMAIN root_urls :
                                    StrLen(root_urls[i]) <= StrLen(root_urls[j])}
                 main_root == root_urls[CHOOSE i \in shortest : \A j \in shortest : i <= j]
             IN  [title    |-> DictGet(pages, main_root, None).title,
                  url      |-> DictGet(pages, main_root, None).url,
                  page     |-> <<"index.md">>,
                  children |-> SubtreeList(pages, edges, root_urls, {}).nodes]
        ELSE IF root_urls # <<>>
        THEN build_subtree(pages, edges, root_urls[1], {}).node
        ELSE [title |-> <<"No Title">>, url |-> <<>>, page |-> <<"index.md">>,
              children |-> <<>>]

\* The page_info entry close_spider makes up for a url that has none.
MissingPageInfo(url) ==
    LET cuts == {i \in DOMAIN url : url[i] \in {"/", "https://", "http://"}}
        last == IF cuts = {} THEN 0 ELSE CHOOSE i \in cuts : \A j \in cuts : j <= i
        seg == SubSeq(url, last + 1, Len(url))
    IN  [url   |-> url,
         title |-> IF seg = <<>> THEN <<"H", "o", "m", "e">> ELSE seg,
         page  |-> [i \in DOMAIN url |->
                       IF url[i] = "https://" THEN "https-"
                       ELSE IF url[i] = "http://" THEN "http-"
                       ELSE IF url[i] = "/" THEN "-" ELSE url[i]] \o <<".md">>]

RECURSIVE AddMissingPages(_, _)
AddMissingPages(pinfo, urls) ==
    IF urls = <<>> THEN pinfo
    ELSE AddMissingPages(DictPut(pinfo, Head(urls), MissingPageInfo(Head(urls))),
                         Tail(urls))

\* A close_spider that deletes no edge.
PromotedRoot_None(pmap, pinfo) == pmap

\* The edge close_spider deletes when no page is a root: that of the parent
\* named most often (the first such in the order of parent_map), if it is a
\* page and a child.
PromotedRoot(pmap, pinfo) ==
    LET count(i) == Cardinality({j \in DOMAIN pmap : pmap[j].v = pmap[i].v})
        most == {i \in DOMAIN pmap : \A j \in DOMAIN pmap : count(j) <= count(i)}
        first == CHOOSE i \in most : \A j \in most : i <= j
    IN  IF /\ \A k \in DictKeys(pinfo) : k \in DictKeys(pmap)
           /\ pinfo # <<>>
           /\ pmap # <<>>
           /\ pmap[first].v \in DictKeys(pinfo)
        THEN DictDel(pmap, pmap[first].v)
        ELSE pmap

\* The urls of parent_map that have no page_info (and are not "ROOT").
MissingPages(pmap, pinfo) ==
    {u \in DictKeys(pmap) \cup {pmap[i].v : i \in DOMAIN pmap} :
        u \notin DictKeys(pinfo) /\ u # <<"ROOT">>}

\* HierarchyPipeline.close_spider on the parent_map and page_info it finds,
\* adding the missing pages in the order `missing`: the two dicts as it
\* leaves them and the hierarchy it writes.
hierarchy_close_spider(pmap0, pinfo0, missing) ==
    LET pmap == PromotedRoot(pmap0, pinfo0)
        pinfo == AddMissingPages(pinfo0, missing)
    IN  [parent_map |-> pmap, page_info |-> pinfo,
         page_hierarchy |-> build_tree(pinfo, pmap)]

-----------------------------------------------------------------------------
(* scrape/link_filters.py, scrape/spiders/docs.py, scrape/pipelines/html_saver.py *)

EndsWith(s, e) == Len(e) <= Len(s) /\ SubSeq(s, Len(s) - Len(e) + 1, Len(s)) = e
StartsWith(s, e) == Len(e) <= Len(s) /\ SubSeq(s, 1, Len(e)) = e

\* is_html_doc : the path ends with one of ".html", "/", "".
is_html_doc(url) ==
    \E ext \in {<<".html">>, <<"/">>, <<>>} : EndsWith(urlparse(url).path, ext)

\* should_skip_url : a raw/source directory, a source-file or media
\* extension, or a path that ends with none of ALLOWED_EXTENSIONS.
should_skip_url(url) ==
    \/ \E i \in DOMAIN url :
          /\ i + 2 <= Len(url)
          /\ url[i] \in {"/", "https://", "http://"}
          /\ url[i + 1] \in {"_sources", "raw", "source", "_static", "_downloads"}
          /\ url[i + 2] = "/"
    \/ /\ url # <<>>
       /\ url[Len(url)] \in {".md.txt", ".rst.txt", ".py.txt", ".png", ".jpg", ".jpeg",
                             ".gif", ".svg", ".pdf", ".zip", ".tar", ".gz"}
    \/ ~\E ext \in {<<".html">>, <<"/">>, <<>>} : EndsWith(urlparse(url).path, ext)

\* should_follow_url
should_follow_url(url, include, exclude) ==
    LET path == urlparse(url).path
    IN  /\ \A i \in DOMAIN exclude : ~StartsWith(path, exclude[i])
        /\ include # <<>> => \E i \in DOMAIN include : StartsWith(path, include[i])

\* str.title() of a lower-case string of words: the first letter of each
\* word in upper case.
Upper(a) == IF a = "a" THEN "A" ELSE IF a = "b" THEN "B" ELSE IF a = "s" THEN "S" ELSE a
Title(s) == [i \in DOMAIN s |-> IF i = 1 \/ s[i - 1] = " " THEN Upper(s[i]) ELSE s[i]]

\* s.split("/")[-1]
LastSegment(s) ==
    LET cuts == {i \in DOMAIN s : s[i] = "/"}
    IN  IF cuts = {} THEN s
        ELSE SubSeq(s, (CHOOSE i \in cuts : \A j \in cuts : j <= i) + 1, Len(s))

\* last.replace("-", " ").replace("_", " ").title(), "Home" for no path.
TitleOfPath(path) ==
    IF path = <<>> THEN <<"H", "o", "m", "e">>
    ELSE Title([i \in DOMAIN path |-> IF path[i] \in {"-", "_"} THEN " " ELSE path[i]])

\* DocsSpider._url_to_title
_url_to_title(url) == TitleOfPath(LastSegment(RStrip(urlparse(url).path, "/")))

\* The crawl's configuration (utils/config.py): depth limit, path rules.
CfgMaxDepth == 2
CfgInclude == <<>>
CfgExclude == <<>>

\* DocsSpider.parse stops before the links of a page at the depth limit.
AtDepthLimit_Beyond(depth) == depth > CfgMaxDepth
AtDepthLimit(depth) == depth >= CfgMaxDepth

\* The PageItem DocsSpider.parse yields for a response; `title` is the text
\* of the page's <title>, None when it has none.
ParseItem(url, depth, parent, root, title) ==
    [url    |-> normalize_url(url),
     depth  |-> depth,
     parent |-> IF normalize_url(url) = root THEN Some(<<"ROOT">>) ELSE parent,
     title  |-> IF Truthy(title) THEN title[1] ELSE _url_to_title(url),
     html   |-> <<"<html>">> \o url]

\* The links of a response that DocsSpider.parse turns into requests.
Followed(links) ==
    {l \in links : /\ ~should_skip_url(l)
                   /\ is_html_doc(l)
                   /\ should_follow_url(l, CfgInclude, CfgExclude)}

\* Path(name).stem
Stem(name) ==
    IF name # <<>> /\ name[Len(name)] = ".html" THEN SubSeq(name, 1, Len(name) - 1) ELSE name

\* process_item once the file name is made: the html file, the parent edge
\* unless the parent is "ROOT" or none, one more urls_map entry, the page info.
StoreItem(st, item, fname) ==
    [parent_map |-> IF Truthy(item.parent) /\ item.parent # Some(<<"ROOT">>)
                    THEN DictPut(st.parent_map, item.url, item.parent[1])
                    ELSE st.parent_map,
     urls_map   |-> Append(st.urls_map,
                        [url |-> item.url, file |-> <<"raw_html/">> \o fname,
                         title |-> item.title]),
     page_info  |-> DictPut(st.page_info, item.url,
                        [url |-> item.url, title |-> item.title,
                         page |-> Stem(fname) \o <<".md">>]),
     out_files  |-> [n \in DOMAIN st.out_files \cup {<<"raw_html/">> \o fname} |->
                        IF n = <<"raw_html/">> \o fname THEN item.html ELSE st.out_files[n]]]

\* HtmlSaverPipeline.process_item : the pipeline's fields and the files
\* after the item.
process_item(st, item) == StoreItem(st, item, url_to_filename(item.url))

\* HtmlSaverPipeline.close_spider : the three files it writes.
html_saver_close(st) ==
    LET new == {<<"urls_map.jsonl">>, <<"parent_map.json">>, <<"page_info.json">>}
    IN  [n \in DOMAIN st.out_files \cup new |->
            IF n = <<"urls_map.jsonl">> THEN st.urls_map
            ELSE IF n = <<"parent_map.json">> THEN st.parent_map
            ELSE IF n = <<"page_info.json">> THEN st.page_info
            ELSE st.out_files[n]]

Pipeline == [urls_map |-> urls_map, page_info |-> page_info,
             parent_map |-> parent_map, out_files |-> out_files]

-----------------------------------------------------------------------------
(* scrape/crawler.py and scrape/adapter.py : from the crawl to a PipelineState *)

\* crawl_docs after the crawl: what it reads back from OUTPUT_DIR.
crawl_docs(files) ==
    [urls_map  |-> IF <<"urls_map.jsonl">> \in DOMAIN files
                   THEN files[<<"urls_map.jsonl">>] ELSE <<>>,
     hierarchy |-> IF <<"page_hierarchy.json">> \in DOMAIN files
                   THEN files[<<"page_hierarchy.json">>] ELSE <<>>]

RECURSIVE _extract_relationships(_, _, _)
RECURSIVE ExtractChildren(_, _, _)
\* _extract_relationships : the child -> parent dict after visiting node.
_extract_relationships(pmap, node, parent_url) ==
    LET here == IF node.url # <<>> /\ Truthy(parent_url)
                THEN DictPut(pmap, node.url, parent_url[1]) ELSE pmap
    IN  ExtractChildren(here, node.children, Some(node.url))

ExtractChildren(pmap, children, url) ==
    IF children = <<>> THEN pmap
    ELSE ExtractChildren(_extract_relationships(pmap, Head(children), url),
                         Tail(children), url)

\* extract_parent_relationships ({} is no dict with a url: nothing to extract)
extract_parent_relationships(h) ==
    IF h = <<>> THEN <<>> ELSE _extract_relationships(<<>>, h, None)

\* create_documents_from_crawl : parent_id is what the extracted map holds
\* for the url, children_ids are the ids of the urls mapped to it.
create_documents_from_crawl(crawl_result, files) ==
    LET pmap == extract_parent_relationships(crawl_result.hierarchy)
        items == SelectSeq(crawl_result.urls_map,
                           LAMBDA it : it.url # <<>> /\ it.file # <<>>)
        kids(url) == SelectSeq(pmap, LAMBDA e : e.v = url)
        doc(it) ==
            Document(UrlToId(it.url), it.url, it.title,
                     IF it.file \in DOMAIN files THEN ReadText(files[it.file]) ELSE <<>>,
                     <<[k |-> <<"original_file">>, v |-> it.file],
                       [k |-> <<"type">>, v |-> <<"html">>]>>,
                     IF it.url \in DictKeys(pmap)
                     THEN Some(DictGet(pmap, it.url, None)) ELSE None,
                     [i \in DOMAIN kids(it.url) |-> UrlToId(kids(it.url)[i].k)])
    IN  [i \in DOMAIN items |-> doc(items[i])]

\* process_crawl after the crawl: the PipelineState it returns.
process_crawl(files) ==
    LET docs == create_documents_from_crawl(crawl_docs(files), files)
        st == AddAll([documents |-> <<>>, url_map |-> <<>>], docs)
    IN  [documents |-> st.documents, url_map |-> st.url_map,
         hierarchy |-> build_hierarchy(st.documents)]

-----------------------------------------------------------------------------
(* The crawl: Scrapy's scheduler drives DocsSpider.parse and the pipelines *)

\* The site crawled: its urls as the link extractor reports them, and the
\* text of each page's <title> (None where the page has none).
SiteRoot == <<"https://", "s", "/">>
SiteUrls == {SiteRoot, SiteRoot \o <<"a">>, SiteRoot \o <<"a", "/">>, SiteRoot \o <<"b">>,
             SiteRoot \o <<"raw", "/", "b">>}
StartUrls == {SiteRoot, SiteRoot \o <<"a", "/">>, SiteRoot \o <<"raw", "/", "b">>}
SiteTitle(url) == IF url = SiteRoot \o <<"a">> THEN Some(<<"A">>) ELSE None

\* What the scheduler's duplicate filter compares: the url without fragment.
request_fingerprint(url) == geturl([urlparse(url) EXCEPT !.fragment = <<>>])

\* State before the crawl of process_crawl(start_url): one start request,
\* which the duplicate filter does not record (dont_filter).
InitCrawl ==
    /\ NoCalls
    /\ documents = <<>>
    /\ url_map = <<>>
    /\ hierarchy = <<>>
    /\ disk = <<>>
    /\ loaded = None
    /\ op = <<"crawl", 0>>
    /\ urls_map = <<>>
    /\ page_info = <<>>
    /\ parent_map = <<>>
    /\ out_files = <<>>
    /\ seen = {}
    /\ deliveries = <<>>
    /\ closed = {}
    /\ page_hierarchy = None
    /\ \E start \in StartUrls :
          /\ root_url = Some(normalize_url(start))
          /\ frontier = {[url |-> start, depth |-> 0, parent |-> None]}

\* One response reaches DocsSpider.parse: the item goes through
\* HtmlSaverPipeline.process_item, the links that pass the filters and the
\* duplicate filter are scheduled.
Parse ==
    /\ UNCHANGED callVars
    /\ op[1] = "crawl"
    /\ \E r \in frontier, links \in SUBSET SiteUrls :
       \E item \in {ParseItem(r.url, r.depth, r.parent, root_url[1], SiteTitle(r.url))} :
       \E after \in {process_item(Pipeline, item)} :
       \E fresh \in {{l \in Followed(links) : request_fingerprint(l) \notin seen}} :
            IF should_skip_url(r.url)
            THEN /\ links = {}
                 /\ frontier' = frontier \ {r}
                 /\ UNCHANGED <<urls_map, page_info, parent_map, out_files, seen, deliveries>>
            ELSE /\ urls_map' = after.urls_map
                 /\ page_info' = after.page_info
                 /\ parent_map' = after.parent_map
                 /\ out_files' = after.out_files
                 /\ deliveries' = Append(deliveries, item)
                 /\ IF AtDepthLimit(r.depth)
                    THEN /\ links = {}
                         /\ frontier' = frontier \ {r}
                         /\ seen' = seen
                    ELSE /\ frontier' = (frontier \ {r}) \cup
                                {[url |-> l, depth |-> r.depth + 1, parent |-> Some(item.url)] :
                                    l \in fresh}
                         /\ seen' = seen \cup {request_fingerprint(l) : l \in fresh}
    /\ UNCHANGED <<closed, root_url, page_hierarchy>>
    /\ UNCHANGED stateVars

\* HtmlSaverPipeline.close_spider, once the crawl has no request left.
CloseHtmlSaver ==
    /\ UNCHANGED callVars
    /\ frontier = {}
    /\ root_url # None
    /\ "html_saver" \notin closed
    /\ out_files' = html_saver_close(Pipeline)
    /\ closed' = closed \cup {"html_saver"}
    /\ UNCHANGED <<urls_map, page_info, parent_map, frontier, seen, deliveries,
                   root_url, page_hierarchy>>
    /\ UNCHANGED stateVars

\* HierarchyPipeline.close_spider.  The spider has parent_map and page_info
\* only once HtmlSaverPipeline.close_spider has set them; an empty one falls
\* back to the file.  A dict taken from the spider is the pipeline's own
\* object, so what close_spider changes in it shows there.
CloseHierarchy ==
    /\ UNCHANGED callVars
    /\ frontier = {}
    /\ "hierarchy" \notin closed
    /\ LET attr(d) == IF "html_saver" \in closed THEN d ELSE <<>>
           found(d, file) == IF attr(d) = <<>> /\ file \in DOMAIN out_files
                             THEN out_files[file] ELSE attr(d)
           pmap0 == found(parent_map, <<"parent_map.json">>)
           pinfo0 == found(page_info, <<"page_info.json">>)
       IN  \E missing \in Orderings(MissingPages(PromotedRoot(pmap0, pinfo0), pinfo0)) :
             LET r == hierarchy_close_spider(pmap0, pinfo0, missing)
             IN  /\ parent_map' = IF attr(parent_map) # <<>> THEN r.parent_map ELSE parent_map
                 /\ page_info' = IF attr(page_info) # <<>> THEN r.page_info ELSE page_info
                 /\ page_hierarchy' = Some(r.page_hierarchy)
                 /\ out_files' = [n \in DOMAIN out_files \cup {<<"page_hierarchy.json">>} |->
                                    IF n = <<"page_hierarchy.json">> THEN r.page_hierarchy
                                    ELSE out_files[n]]
    /\ closed' = closed \cup {"hierarchy"}
    /\ UNCHANGED <<urls_map, frontier, seen, deliveries, root_url>>
    /\ UNCHANGED stateVars

\* The rest of process_crawl, once both pipelines are closed.
ProcessCrawl ==
    /\ UNCHANGED callVars
    /\ op[1] = "crawl"
    /\ closed = {"html_saver", "hierarchy"}
    /\ \E st \in {process_crawl(out_files)} :
           /\ documents' = st.documents
           /\ url_map' = st.url_map
           /\ hierarchy' = st.hierarchy
    /\ op' = <<"process_crawl", Len(documents')>>
    /\ UNCHANGED <<disk, loaded>>
    /\ UNCHANGED crawlVars

NextCrawl == Parse \/ CloseHtmlSaver \/ CloseHierarchy \/ ProcessCrawl

SpecCrawl == InitCrawl /\ [][NextCrawl]_vars

-----------------------------------------------------------------------------
(* build_tree and HierarchyPipeline.close_spider on arbitrary dicts *)

PA == <<"https://", "s", "/">>
PB == <<"https://", "s", "/", "a">>
PC == <<"https://", "s", "/", "b">>
PM == <<"https://", "s", "/", "m">>
TreeTitle(url) == IF url = PA THEN <<"H", "o", "m", "e">>
                  ELSE IF url = PB THEN <<"A">> ELSE <<"B">>

\* The dicts with distinct keys from keys, in any order, and values from vals.
Dicts(keys, vals) ==
    UNION {{[i \in DOMAIN ks |-> [k |-> ks[i], v |-> f[i]]] : f \in [DOMAIN ks -> vals]} :
              ks \in UNION {Orderings(K) : K \in SUBSET keys}}

\* HtmlSaverPipeline has closed on some page_info and parent_map (a page's
\* info may lack "page" when it comes from elsewhere); nothing is built yet.
InitTree ==
    /\ NoCalls
    /\ documents = <<>>
    /\ url_map = <<>>
    /\ hierarchy = <<>>
    /\ disk = <<>>
    /\ loaded = None
    /\ op = <<"init", 0>>
    /\ urls_map = <<>>
    /\ frontier = {}
    /\ seen = {}
    /\ deliveries = <<>>
    /\ closed = {"html_saver"}
    /\ root_url = None
    /\ page_hierarchy = None
    /\ \E ks \in UNION {Orderings(K) : K \in SUBSET {PA, PB, PC}} :
          page_info = [i \in DOMAIN ks |->
                          [k |-> ks[i],
                           v |-> [url |-> ks[i], title |-> TreeTitle(ks[i]),
                                  page |-> UrlToId(ks[i]) \o <<".md">>]]]
    /\ parent_map \in Dicts({PA, PB, PC}, {PA, PB, PC, PM})
    /\ out_files = html_saver_close([urls_map |-> urls_map, page_info |-> page_info,
                                     parent_map |-> parent_map, out_files |-> <<>>])

\* A call build_tree(page_info, parent_map).
BuildTree ==
    /\ UNCHANGED callVars
    /\ op[1] = "init"
    /\ root_url = None
    /\ "hierarchy" \notin closed
    /\ page_hierarchy' = Some(build_tree(page_info, parent_map))
    /\ op' = <<"build_tree", 0>>
    /\ UNCHANGED <<documents, url_map, hierarchy, disk, loaded>>
    /\ UNCHANGED <<urls_map, page_info, parent_map, out_files, frontier, seen,
                   deliveries, closed, root_url>>

NextTree == BuildTree \/ CloseHierarchy

SpecTree == InitTree /\ [][NextTree]_vars

-----------------------------------------------------------------------------
(* Properties of the pipeline state *)

RECURSIVE Flatten(_)
\* Every node of a list of trees, parents before children.
Flatten(nodes) ==
    IF nodes = <<>> THEN <<>>
    ELSE <<Head(nodes)>> \o Flatten(Head(nodes).children) \o Flatten(Tail(nodes))

RECURSIVE NoRepeatOnPath(_, _)
\* No node of the trees has the id of one of its ancestors (or of `above`).
NoRepeatOnPath(nodes, above) ==
    \A i \in DOMAIN nodes :
        /\ nodes[i].id \notin above
        /\ NoRepeatOnPath(nodes[i].children, above \cup {nodes[i].id})

RECURSIVE Depth(_)
Depth(nodes) ==
    IF nodes = <<>> THEN 0
    ELSE LET d == {1 + Depth(nodes[i].children) : i \in DOMAIN nodes}
         IN  CHOOSE m \in d : \A x \in d : x <= m

Occurrences(nodes, id) == {i \in DOMAIN Flatten(nodes) : Flatten(nodes)[i].id = id}

Built == op[1] = "build_hierarchy"
DocOf(id) == DictGet(documents, id, None)
\* Number of times id is listed in the children_ids of the stored documents.
Listings(id) ==
    Cardinality({<<i, j>> \in (DOMAIN documents) \X (1..(MaxChildEntries + 1)) :
                    /\ j \in DOMAIN documents[i].v.children_ids
                    /\ documents[i].v.children_ids[j] = id})

\* C2: save() followed by load() gives back the saved url_map and hierarchy
\* and, for every document, the saved id, url, title, content, metadata,
\* parent_id and children_ids.
C2_SaveLoadRoundTrip ==
    (op[1] = "load" /\ save(CurrentState, disk) = disk) =>
        LET l == loaded[1]
        IN  /\ l.url_map = url_map
            /\ l.hierarchy = hierarchy
            /\ DictKeys(l.documents) = DictKeys(documents)
            /\ \A id \in DictKeys(documents) :
                  DictGet(l.documents, id, None) = DocOf(id)

\* C3 as written: url_map is a bijection between URLs and stored ids, every
\* stored id the value of exactly one entry, every value a stored id, and
\* url_map[d.url] = d.id for every stored document d.
C3_UrlMapBijection ==
    /\ \A id \in DictKeys(documents) :
          Cardinality({i \in DOMAIN url_map : url_map[i].v = id}) = 1
    /\ \A i \in DOMAIN url_map : url_map[i].v \in DictKeys(documents)
    /\ \A i \in DOMAIN documents :
          DictGet(url_map, documents[i].v.url, None) = documents[i].k

\* C3 amended: after any sequence of add_document calls every url_map value
\* is the id of a stored document and the url of every stored document is a
\* url_map key (url_map need not be one-to-one nor onto the stored ids).
C3_UrlMapWithinDocuments ==
    /\ \A i \in DOMAIN url_map : url_map[i].v \in DictKeys(documents)
    /\ \A i \in DOMAIN documents : documents[i].v.url \in DictKeys(url_map)
    /\ \A i \in DOMAIN documents : documents[i].v.id = documents[i].k

\* An id was added again under another url: one document, two url entries.
C3_Witness ==
    /\ op[1] = "add_document"
    /\ Len(documents) = 1
    /\ Len(url_map) = 2

\* C6: build_hierarchy ends on every set of documents, cycles included (the
\* tree is no deeper than the number of documents), and no id occurs twice on
\* a root-to-leaf path: the child that would close a cycle is left out.
C6_NoIdTwiceOnPath ==
    Built =>
        /\ NoRepeatOnPath(hierarchy.children, {})
        /\ Depth(hierarchy.children) <= Len(documents)
        /\ \A i \in DOMAIN Flatten(hierarchy.children) :
              Flatten(hierarchy.children)[i].id \in DictKeys(documents)

\* A parentless document lists a child that lists it back; the tree holds
\* the pair once, the child without children.
C6_Witness ==
    /\ Built
    /\ \E i \in DOMAIN hierarchy.children :
          LET n == hierarchy.children[i]
          IN  /\ Len(n.children) = 1
              /\ n.children[1].children = <<>>
              /\ \E j \in DOMAIN DocOf(n.children[1].id).children_ids :
                    DocOf(n.children[1].id).children_ids[j] = n.id

ChildrenMirrorParents ==
    \A id \in DictKeys(documents) :
        /\ Listings(id) <= 1
        /\ Listings(id) = 1 => Truthy(DocOf(id).parent_id)

-----------------------------------------------------------------------------
(* Properties of the page tree *)

\* The nodes of a page tree that stand for pages: all of them, but for the
\* "index.md" node build_tree puts above several roots (or returns alone).
PageNodes(tree) ==
    IF tree.page = <<"index.md">> THEN Flatten(tree.children) ELSE Flatten(<<tree>>)
\* The root position of a page tree.
TopNodes(tree) ==
    IF tree.page = <<"index.md">> THEN tree.children ELSE <<tree>>
UrlNodes(tree, url) == {i \in DOMAIN PageNodes(tree) : PageNodes(tree)[i].url = url}

\* The dicts the tree of a SpecTree state was built from.
GivenPages == out_files[<<"page_info.json">>]
GivenEdges == out_files[<<"parent_map.json">>]
TreeBuilt == root_url = None /\ page_hierarchy # None
ByBuildTree == TreeBuilt /\ op[1] = "build_tree"
ByCloseSpider == TreeBuilt /\ "hierarchy" \in closed

\* C8: in the tree build_tree returns every key of pages occurs once as a
\* full node and at most once more as a childless reference: once or
\* twice in all, and if twice then once without children.
C8_EveryPageOnce ==
    ByBuildTree =>
        \A url \in DictKeys(GivenPages) :
            LET t == page_hierarchy[1]
                occ == UrlNodes(t, url)
            IN  /\ Cardinality(occ) \in {1, 2}
                /\ Cardinality(occ) = 2 =>
                      \E i \in occ : PageNodes(t)[i].children = <<>>

\* C9: a page X recorded as its own parent is in the built tree, at the
\* root position as a page without parent edge is, and no node of X has X
\* as a child.
C9_SelfEdgeDropped ==
    TreeBuilt =>
        \A x \in DictKeys(GivenPages) :
            DictGet(GivenEdges, x, None) = x =>
                LET t == page_hierarchy[1]
                IN  /\ \E i \in DOMAIN TopNodes(t) : TopNodes(t)[i].url = x
                    /\ \A i \in UrlNodes(t, x) :
                          \A j \in DOMAIN PageNodes(t)[i].children :
                              PageNodes(t)[i].children[j].url # x

\* The parent_map {b -> a, c -> b, a -> c}, in this order.
Cycle3(a, b, c) == <<[k |-> b, v |-> a], [k |-> c, v |-> b], [k |-> a, v |-> c]>>

-----------------------------------------------------------------------------
(* Properties of the crawl *)

Crawled == op[1] = "process_crawl"
\* The parent edges the crawl recorded, as process_crawl reads them.
RecordedEdges == extract_parent_relationships(crawl_docs(out_files).hierarchy)

\* C1: after process_crawl, for every recorded parent edge (c, p) the
\* document of c has the id of p's document as parent_id and p's document
\* lists the id of c; every id in a children_ids is a stored document whose
\* parent_id is the listing document's id; the root page has parent_id None.
C1_ParentChildIdsConsistent ==
    Crawled =>
        /\ \A i \in DOMAIN RecordedEdges :
              LET c == UrlToId(RecordedEdges[i].k)
                  p == UrlToId(RecordedEdges[i].v)
              IN  (c \in DictKeys(documents) /\ p \in DictKeys(documents)) =>
                      /\ DocOf(c).parent_id = Some(p)
                      /\ \E j \in DOMAIN DocOf(p).children_ids :
                            DocOf(p).children_ids[j] = c
        /\ \A i \in DOMAIN documents :
              \A j \in DOMAIN documents[i].v.children_ids :
                  LET c == documents[i].v.children_ids[j]
                  IN  /\ c \in DictKeys(documents)
                      /\ DocOf(c).parent_id = Some(documents[i].k)
        /\ \A i \in DOMAIN documents :
              documents[i].v.url = root_url[1] => documents[i].v.parent_id = None

\* The deliveries of the canonical url u that name a parent page.
DeliveriesOf(u) ==
    SelectSeq(deliveries, LAMBDA it : it.url = u /\ Truthy(it.parent)
                                      /\ it.parent # Some(<<"ROOT">>))

\* C4: the parent recorded for a url is the parent of its first delivery,
\* whatever later deliveries of the same canonical url say (the pipeline's
\* parent_map during the crawl, parent_map.json after it).
C4_FirstSeenParentWins ==
    /\ (root_url # None /\ "hierarchy" \notin closed) =>
          \A i \in DOMAIN parent_map :
              parent_map[i].v = DeliveriesOf(parent_map[i].k)[1].parent[1]
    /\ (root_url # None /\ "html_saver" \in closed) =>
          \A i \in DOMAIN GivenEdges :
              GivenEdges[i].v = DeliveriesOf(GivenEdges[i].k)[1].parent[1]

\* C5: no two page records and no two urls_map entries have the same
\* canonical url.
C5_OneRecordPerCanonicalUrl ==
    /\ \A i, j \in DOMAIN deliveries : deliveries[i].url = deliveries[j].url => i = j
    /\ \A i, j \in DOMAIN urls_map : urls_map[i].url = urls_map[j].url => i = j
    /\ <<"urls_map.jsonl">> \in DOMAIN out_files =>
          \A i, j \in DOMAIN out_files[<<"urls_map.jsonl">>] :
              out_files[<<"urls_map.jsonl">>][i].url = out_files[<<"urls_map.jsonl">>][j].url
                  => i = j

-----------------------------------------------------------------------------
(* docs_llm_scraper/cleaner/html_cleaner.py : paragraph deduplication       *)
(* A line is a sequence of atoms; a text has the atom "\n" between lines;  *)
(* the atom "fence" is the three backquotes of a code fence.                *)

MaxCleaned == 3

\* hashlib.sha256(line).hexdigest() : one digest per line.
sha256(line) == <<"sha256:">> \o line

\* The test on the count that drops only from the fourth occurrence on.
Dropped_FromFourth(count) == count > 3

\* if paragraph_hashes[paragraph_hash] >= 3 : skip_hashes.add(...); continue
Dropped(count) == count >= 3

RECURSIVE CleanLines(_, _)
\* The loop of _clean_markdown over `lines`: the counts, the skip set and the
\* lines kept. A blank line (not line.strip()) is kept as ''; a line that
\* starts with none of '#', '>', fence, four spaces, '-', '*', '|' is hashed
\* and counted, and dropped when its hash is skipped or its count is Dropped.
CleanLines(st, lines) ==
    IF lines = <<>> THEN st
    ELSE IF \A i \in DOMAIN Head(lines) : Head(lines)[i] = " "
    THEN CleanLines([st EXCEPT !.lines = Append(@, <<>>)], Tail(lines))
    ELSE IF \E pre \in {<<"#">>, <<">">>, <<"fence">>, <<" ", " ", " ", " ">>,
                        <<"-">>, <<"*">>, <<"|">>} : StartsWith(Head(lines), pre)
    THEN CleanLines([st EXCEPT !.lines = Append(@, Head(lines))], Tail(lines))
    ELSE IF sha256(Head(lines)) \in st.skip
    THEN CleanLines(st, Tail(lines))
    ELSE CleanLines(
           [hashes |-> DictPut(st.hashes, sha256(Head(lines)),
                               DictGet(st.hashes, sha256(Head(lines)), 0) + 1),
            skip   |-> IF Dropped(DictGet(st.hashes, sha256(Head(lines)), 0) + 1)
                       THEN st.skip \cup {sha256(Head(lines))} ELSE st.skip,
            lines  |-> IF Dropped(DictGet(st.hashes, sha256(Head(lines)), 0) + 1)
                       THEN st.lines ELSE Append(st.lines, Head(lines))],
           Tail(lines))

RECURSIVE JoinLines(_)
\* '\n'.join(lines)
JoinLines(lines) ==
    IF lines = <<>> THEN <<>>
    ELSE IF Len(lines) = 1 THEN lines[1]
    ELSE lines[1] \o <<"\n">> \o JoinLines(Tail(lines))

\* _clean_markdown, given the result `st` of its loop: the two module-level
\* tables and the text returned, the source comment in front and, by
\* re.sub(r'\n{3,}', '\n\n', ...), only two of any run of newlines kept.
_clean_markdown(st, url) ==
    [hashes |-> st.hashes,
     skip   |-> st.skip,
     text   |-> SelectSeq(
                  [i \in 1..(5 + Len(JoinLines(st.lines))) |->
                      IF i > 2
                         /\ (<<"<!-- Source: ", url, " -->", "\n", "\n">> \o JoinLines(st.lines))[i] = "\n"
                         /\ (<<"<!-- Source: ", url, " -->", "\n", "\n">> \o JoinLines(st.lines))[i - 1] = "\n"
                         /\ (<<"<!-- Source: ", url, " -->", "\n", "\n">> \o JoinLines(st.lines))[i - 2] = "\n"
                      THEN ""
                      ELSE (<<"<!-- Source: ", url, " -->", "\n", "\n">> \o JoinLines(st.lines))[i]],
                  LAMBDA a : a # "")]

\* The Markdown that markdownify makes of the pages cleaned, as lines.
CleanerDocs ==
    {<<<<"a">>>>, <<<<"a">>, <<"a">>>>, <<<<"a">>, <<"a">>, <<"a">>>>, <<<<"b">>>>,
     <<<<"a">>, <<"b">>>>, <<<<"#", " ", "a">>, <<"a">>>>,
     <<<<"a">>, <<" ">>, <<>>, <<>>, <<"b">>>>, <<<<" ", "a">>, <<"-", "a">>>>}

\* One call clean_html(html, url): the conversion gives `lines`, or a step
\* raises and the error page is returned.
CleanHtml ==
    /\ Len(output) < MaxCleaned
    /\ \E lines \in CleanerDocs, raises \in BOOLEAN :
        \E r \in {_clean_markdown(CleanLines([hashes |-> paragraph_hashes, skip |-> skip_hashes,
                                              lines |-> <<>>], lines), "https://s/a")} :
            /\ input' = Append(input, lines)
            /\ output' = Append(output,
                                IF raises
                                THEN <<"# Error Processing Page", "\n", "\n",
                                       "Failed to process ", "https://s/a", ": ", "error">>
                                ELSE r.text)
            /\ paragraph_hashes' = IF raises THEN paragraph_hashes ELSE r.hashes
            /\ skip_hashes' = IF raises THEN skip_hashes ELSE r.skip
    /\ op' = <<"clean_html", 0>>
    /\ UNCHANGED <<documents, url_map, hierarchy, disk, loaded>>
    /\ UNCHANGED crawlVars

SpecCleaner == InitState /\ [][CleanHtml]_vars

RECURSIVE SplitLines(_)
\* text.split('\n')
SplitLines(text) ==
    IF FirstIndex(text, {"\n"}) > Len(text) THEN <<text>>
    ELSE <<SubSeq(text, 1, FirstIndex(text, {"\n"}) - 1)>>
         \o SplitLines(SubSeq(text, FirstIndex(text, {"\n"}) + 1, Len(text)))

\* The paragraph lines of the pages cleaned.
CleanerParagraphs ==
    {<<"a">>, <<"b">>, <<" ", "a">>}
\* How often line occurs in the i-th output.
CountIn(i, line) ==
    Cardinality({j \in DOMAIN SplitLines(output[i]) : SplitLines(output[i])[j] = line})
RECURSIVE SumCount(_, _)
SumCount(n, line) == IF n = 0 THEN 0 ELSE CountIn(n, line) + SumCount(n - 1, line)

\* C11: over any sequence of clean_html calls a paragraph line is kept at
\* most twice in all the outputs together, so in at most two documents: the
\* third occurrence puts its hash in skip_hashes and is dropped, as is every
\* later one; and skip_hashes holds exactly the hashes counted three times.
C11_ParagraphAtMostTwice ==
    /\ \A p \in CleanerParagraphs :
          /\ SumCount(Len(output), p) <= 2
          /\ Cardinality({i \in DOMAIN output : CountIn(i, p) > 0}) <= 2
          /\ sha256(p) \in skip_hashes <=> DictGet(paragraph_hashes, sha256(p), 0) = 3
          /\ DictGet(paragraph_hashes, sha256(p), 0) <= 3
    /\ \A h \in skip_hashes : \E p \in CleanerParagraphs : h = sha256(p)

\* Three pages: "a", then "a" twice, then "a". The first keeps it, the second
\* keeps its first "a" and drops the other (the third occurrence), the third
\* page comes out without it.
C11_Witness ==
    /\ Len(output) = 3
    /\ input = <<<<<<"a">>>>, <<<<"a">>, <<"a">>>>, <<<<"a">>>>>>
    /\ CountIn(1, <<"a">>) = 1 /\ CountIn(2, <<"a">>) = 1 /\ CountIn(3, <<"a">>) = 0
    /\ sha256(<<"a">>) \in skip_hashes

-----------------------------------------------------------------------------
(* markify/adapter.py and core/pipeline.py : the stages and run_pipeline    *)

\* markify.adapter.process_document : a document without content or not of
\* type html is returned as it is; otherwise a new document with the text
\* MarkdownConverter.convert makes of the content, type markdown and the
\* two sizes.
process_document(doc) ==
    IF doc.content = <<>> \/ "type" \notin DOMAIN doc.metadata
       \/ doc.metadata["type"] # <<"html">>
    THEN doc
    ELSE Document(doc.id, doc.url, doc.title, <<"md:">> \o doc.content,
                  [key \in DOMAIN doc.metadata \cup {"type", "html_size", "markdown_size"} |->
                      IF key = "type" THEN <<"markdown">>
                      ELSE IF key = "html_size" THEN <<Len(doc.content)>>
                      ELSE IF key = "markdown_size" THEN <<1 + Len(doc.content)>>
                      ELSE doc.metadata[key]],
                  doc.parent_id, doc.children_ids)

\* markify_stage(state), the conversion raising for the documents whose id
\* is in `raising`: the new state it builds and returns.
markify_stage(st, raising) ==
    LET new_state ==
            AddAll([documents |-> <<>>, url_map |-> <<>>],
                   [i \in DOMAIN st.documents |->
                       IF st.documents[i].k \in raising THEN st.documents[i].v
                       ELSE process_document(st.documents[i].v)])
    IN  [documents |-> new_state.documents, url_map |-> new_state.url_map,
         hierarchy |-> build_hierarchy(new_state.documents)]

\* annotate_stage(state, api_key) with a key and an LLM that answers: the
\* new state, the markdown documents annotated.
annotate_stage(st) ==
    LET new_state ==
            AddAll([documents |-> <<>>, url_map |-> <<>>],
                   [i \in DOMAIN st.documents |->
                       IF "type" \in DOMAIN st.documents[i].v.metadata
                          /\ st.documents[i].v.metadata["type"] = <<"markdown">>
                       THEN [st.documents[i].v EXCEPT
                                !.content = <<"llm:">> \o @,
                                !.metadata = [@ EXCEPT !["type"] = <<"annotated">>]]
                       ELSE st.documents[i].v])
    IN  [documents |-> new_state.documents, url_map |-> new_state.url_map,
         hierarchy |-> build_hierarchy(new_state.documents)]

\* run_pipeline with the final save inside the try of the annotate stage:
\* nothing is saved once annotate_stage has raised.
run_pipeline_SaveInTry(scraped, failing, build_vector_index) ==
    IF failing = "scrape"
    THEN [ran |-> <<"scrape">>, saved |-> <<>>, raised |-> TRUE, returned |-> None,
          state |-> [documents |-> <<>>, url_map |-> <<>>, hierarchy |-> <<>>]]
    ELSE IF failing = "markify"
    THEN [ran |-> <<"scrape", "markify">>, saved |-> <<scraped>>, raised |-> TRUE,
          returned |-> None, state |-> scraped]
    ELSE [ran |-> <<"scrape", "markify", "annotate">>
                  \o (IF build_vector_index THEN <<"index">> ELSE <<>>),
          saved |-> IF failing = "annotate"
                    THEN <<scraped, markify_stage(scraped, {})>>
                    ELSE <<scraped, markify_stage(scraped, {}),
                           annotate_stage(markify_stage(scraped, {}))>>,
          raised |-> FALSE,
          returned |-> Some(<<"output_dir">>),
          state |-> IF failing = "annotate" THEN markify_stage(scraped, {})
                    ELSE annotate_stage(markify_stage(scraped, {}))]

\* run_pipeline when scrape_stage would return `scraped` and the stage
\* `failing` (if any) raises: the stages entered, the local state at the
\* end, the states saved on the way, and what the call gives its caller.
run_pipeline(scraped, failing, build_vector_index) ==
    IF failing = "scrape"
    THEN [ran |-> <<"scrape">>, saved |-> <<>>, raised |-> TRUE, returned |-> None,
          state |-> [documents |-> <<>>, url_map |-> <<>>, hierarchy |-> <<>>]]
    ELSE IF failing = "markify"
    THEN [ran |-> <<"scrape", "markify">>, saved |-> <<scraped>>, raised |-> TRUE,
          returned |-> None, state |-> scraped]
    ELSE [ran |-> <<"scrape", "markify", "annotate">>
                  \o (IF build_vector_index THEN <<"index">> ELSE <<>>),
          saved |-> <<scraped, markify_stage(scraped, {}),
                      IF failing = "annotate" THEN markify_stage(scraped, {})
                      ELSE annotate_stage(markify_stage(scraped, {}))>>,
          raised |-> FALSE,
          returned |-> Some(<<"output_dir">>),
          state |-> IF failing = "annotate" THEN markify_stage(scraped, {})
                    ELSE annotate_stage(markify_stage(scraped, {}))]

\* A caller runs markify_stage(state) on its state and keeps what is
\* returned; the conversion raises for some of the html documents.
MarkifyStage ==
    /\ output = <<>>
    /\ \E raising \in SUBSET {documents[i].k : i \in DOMAIN documents} :
          /\ input' = <<raising>>
          /\ output' = <<markify_stage(CurrentState, raising)>>
    /\ op' = <<"markify_stage", op[2]>>
    /\ UNCHANGED <<documents, url_map, hierarchy, disk, loaded>>
    /\ UNCHANGED <<paragraph_hashes, skip_hashes>>
    /\ UNCHANGED crawlVars

RECURSIVE SaveAll(_, _)
\* state.save() for each state of a list, in order.
SaveAll(states, files) ==
    IF states = <<>> THEN files ELSE SaveAll(Tail(states), save(Head(states), files))

\* One call of run_pipeline on a site of which process_crawl returns the
\* documents held, with their hierarchy built.
RunPipeline ==
    /\ output = <<>>
    /\ \E failing \in {"none", "scrape", "markify", "annotate", "index"},
          build_vector_index \in BOOLEAN :
          /\ failing = "index" => build_vector_index
          /\ \E r \in {run_pipeline([documents |-> documents, url_map |-> url_map,
                                     hierarchy |-> build_hierarchy(documents)],
                                    failing, build_vector_index)} :
                /\ input' = <<failing, build_vector_index>>
                /\ output' = <<r>>
                /\ disk' = SaveAll(r.saved, disk)
    /\ op' = <<"run_pipeline", op[2]>>
    /\ UNCHANGED <<documents, url_map, hierarchy, loaded>>
    /\ UNCHANGED <<paragraph_hashes, skip_hashes>>
    /\ UNCHANGED crawlVars

SpecPipeline == InitState /\ [][AddDocument \/ MarkifyStage \/ RunPipeline]_vars

\* The type recorded in a document's metadata.
TypeOf(doc) == IF "type" \in DOMAIN doc.metadata THEN doc.metadata["type"] ELSE <<>>

\* C12: after markify_stage, a document whose conversion raised is in the
\* state returned with its HTML content and type 'html' and with
\* metadata conversion_error, and every other html document is of type
\* 'markdown'.
C12_ConversionErrorRecorded ==
    op[1] = "markify_stage" =>
        \A i \in DOMAIN documents :
            LET doc == documents[i].v
                res == DictGet(output[1].documents, documents[i].k, doc)
            IN  TypeOf(doc) = <<"html">> =>
                    IF doc.id \in input[1]
                    THEN /\ res.content = doc.content
                         /\ TypeOf(res) = <<"html">>
                         /\ "conversion_error" \in DOMAIN res.metadata
                    ELSE TypeOf(res) = <<"markdown">>

\* C13: after markify_stage(state), the state object that was passed holds
\* the converted documents and, when it has documents, a built hierarchy.
C13_GivenStateMutated ==
    op[1] = "markify_stage" =>
        /\ documents = output[1].documents
        /\ documents # <<>> => hierarchy # <<>>
        /\ \A i \in DOMAIN documents : TypeOf(documents[i].v) # <<"html">>

\* C14: in run_pipeline the failure of one stage is contained: all the
\* stages are entered, nothing is raised and the output directory is
\* returned.
C14_StageFailureContained ==
    op[1] = "run_pipeline" =>
        /\ ~output[1].raised
        /\ output[1].returned = Some(<<"output_dir">>)
        /\ \A stage \in {"scrape", "markify", "annotate"} :
              \E i \in DOMAIN output[1].ran : output[1].ran[i] = stage

-----------------------------------------------------------------------------
(* Single calls: the arguments are drawn in `input`, the call fills `output` *)

\* vector/processor.py load_index on a persist directory holding `files`
\* whose stores can (`loadable`) or cannot be read: every exception is
\* caught inside and answered with None.
load_index(files, loadable) ==
    IF "docstore.json" \in files /\ loadable THEN "index" ELSE "None"

\* vector/processor.py build_index(input_dir, persist_dir, rebuild=...): what
\* it gives its caller ("raise" for an exception), the files of persist_dir
\* after, and whether the directory was cleared and the documents chunked.
build_index(a) ==
    IF "docstore.json" \in a.files /\ ~a.rebuild
    THEN [result |-> load_index(a.files, a.loadable), files |-> a.files,
          cleared |-> FALSE, chunked |-> FALSE]
    ELSE [result  |-> IF ~a.has_nodes THEN "None"
                      ELSE IF a.build_raises THEN "raise" ELSE "index",
          files   |-> IF ~a.has_nodes
                      THEN (IF a.rebuild THEN {} ELSE a.files)
                      ELSE IF a.build_raises
                      THEN (IF a.rebuild THEN {} ELSE a.files) \ {"graph_store.json"}
                      ELSE ((IF a.rebuild THEN {} ELSE a.files) \ {"graph_store.json"})
                           \cup {"docstore.json", "default__vector_store.json", "index_store.json"},
          cleared |-> a.rebuild,
          chunked |-> TRUE]

\* markify/deduplicator.py Deduplicator.deduplicate on the processed entries
\* (in order, with the Markdown written for each), `similar` holding the
\* pairs of entries whose cosine similarity exceeds the threshold: the
\* first entry of every group of equal content, less the near-duplicates
\* (of a similar pair the later one, or the earlier one if it is shorter).
deduplicate(processed, similar) ==
    LET deduplicated ==
            SelectSeq(processed,
                      LAMBDA e : ~\E i \in DOMAIN processed :
                                     /\ processed[i].idx < e.idx
                                     /\ processed[i].content = e.content)
        near_dupes ==
            {j \in DOMAIN deduplicated :
                \E i \in DOMAIN deduplicated :
                    \/ /\ i < j
                       /\ <<deduplicated[i].idx, deduplicated[j].idx>> \in similar
                       /\ Len(deduplicated[i].content) >= Len(deduplicated[j].content)
                    \/ /\ j < i
                       /\ <<deduplicated[j].idx, deduplicated[i].idx>> \in similar
                       /\ Len(deduplicated[j].content) < Len(deduplicated[i].content)}
    IN  IF Len(deduplicated) > 1
        THEN SelectSeq(deduplicated,
                       LAMBDA e : \A j \in near_dupes : deduplicated[j].idx # e.idx)
        ELSE deduplicated

RECURSIVE update_hierarchy(_, _)
\* markify/mapper.py Mapper.update_hierarchy (its update_node): the node
\* with its url looked up in url_mapping and its children updated. The
\* nodes of the scraper's hierarchy have no 'file' key.
update_hierarchy(node, url_mapping) ==
    [node EXCEPT !.url = DictGet(url_mapping, @, @),
                 !.children = [i \in DOMAIN @ |-> update_hierarchy(@[i], url_mapping)]]

\* markify/processor.py process_docs on the urls_map a.urls_map and the
\* hierarchy a.hierarchy; a.md[i] is the Markdown made of the i-th entry's
\* page, None where its file is missing or the conversion raises.
process_docs(a) ==
    LET processed ==
            SelectSeq([i \in DOMAIN a.urls_map |->
                          [idx |-> i, url |-> a.urls_map[i], content |-> a.md[i]]],
                      LAMBDA e : e.content # None)
        final_files ==
            IF deduplicate(processed, a.similar) # <<>>
            THEN deduplicate(processed, a.similar) ELSE processed
    IN  [urls_map  |-> [i \in DOMAIN final_files |-> final_files[i].url],
         hierarchy |-> update_hierarchy(a.hierarchy,
                           [i \in DOMAIN final_files |->
                               [k |-> final_files[i].url, v |-> final_files[i].url]])]

MaxDocLines == 3

RECURSIVE Preserved(_, _)
\* vector/chunker.py _preserve_special_blocks with CODE_BLOCK_PATTERN on a
\* text given as lines whose fences stand at the start of a line: the lines
\* from `i` on that lie in a block replaced by a placeholder. A block opens
\* at a fence followed by nothing or by word characters and a newline, if a
\* later line starts with a fence, and closes at the first such line.
Preserved(lines, i) ==
    IF i > Len(lines) THEN {}
    ELSE IF /\ lines[i][1] = "fence"
            /\ \A c \in 2..Len(lines[i]) : lines[i][c] \in {"a", "c", "h", "p", "t", "y"}
            /\ \E j \in (i + 1)..Len(lines) : lines[j][1] = "fence"
    THEN LET close == CHOOSE j \in (i + 1)..Len(lines) :
                          /\ lines[j][1] = "fence"
                          /\ \A k \in (i + 1)..(j - 1) : lines[k][1] # "fence"
         IN  i..close \cup Preserved(lines, close + 1)
    ELSE Preserved(lines, i + 1)

RECURSIVE AfterTables(_, _, _)
\* _preserve_special_blocks with TABLE_PATTERN, after the code blocks
\* `hidden` were replaced: a row, a delimiter row and one or more rows that
\* each end in a newline become a placeholder, their last newline included,
\* so the line after the table continues the placeholder's line. The lines
\* from `i` on that follow a table in this way.
AfterTables(lines, hidden, i) ==
    LET Row(l) == /\ l \in DOMAIN lines \ hidden
                  /\ Len(lines[l]) >= 3 /\ lines[l][1] = "|" /\ lines[l][Len(lines[l])] = "|"
        Delimiter(l) == Row(l) /\ \A c \in DOMAIN lines[l] : lines[l][c] \in {"|", "-", ":", " "}
        last == CHOOSE k \in (i + 2)..(Len(lines) - 1) :
                    /\ \A l \in (i + 2)..k : Row(l)
                    /\ ~(Row(k + 1) /\ k + 1 < Len(lines))
    IN  IF i > Len(lines) THEN {}
        ELSE IF Row(i) /\ Delimiter(i + 1) /\ Row(i + 2) /\ i + 2 < Len(lines)
        THEN {last + 1} \cup AfterTables(lines, hidden, last + 2)
        ELSE AfterTables(lines, hidden, i + 1)

\* MarkdownStructureParser.parse, the sections listed in document order
\* with the line each starts at (0 for the root section) and the lines of
\* its get_text(): a line that HEADING_PATTERN matches starts a section,
\* unless it is in `hidden` (inside a placeholder or behind one on its
\* line); the placeholders are restored to the lines they stood for.
parse(lines, hidden) ==
    LET heads == {i \in DOMAIN lines \ hidden :
                     Len(lines[i]) >= 3 /\ lines[i][1] = "#" /\ lines[i][2] = " "}
        start(k) == IF k = 0 THEN 0
                    ELSE CHOOSE i \in heads : Cardinality({j \in heads : j <= i}) = k
        stop(k) == IF k = Cardinality(heads) THEN Len(lines) ELSE start(k + 1) - 1
    IN  [n \in 1..(Cardinality(heads) + 1) |->
            [start |-> start(n - 1),
             text  |-> SubSeq(lines, IF n = 1 THEN 1 ELSE start(n - 1), stop(n - 1))]]

\* StructureAwareNodeParser.get_nodes_from_documents on one document: the
\* nodes made of the sections by _create_node_from_section. A section with
\* more whitespace-separated tokens than 1.5 * chunk_size and without a
\* fence or the text '|---|' goes to the fallback splitter, whose chunks are
\* taken to be the lines; any other section gives one node.
get_nodes_from_documents(sections, chunk_size) ==
    [n \in DOMAIN sections |->
        [start |-> sections[n].start,
         text  |-> sections[n].text,
         fallback |->
            /\ 2 * Cardinality({<<l, c>> \in (DOMAIN sections[n].text) \X (1..7) :
                                   /\ c <= Len(sections[n].text[l])
                                   /\ sections[n].text[l][c] # " "
                                   /\ (c = 1 \/ sections[n].text[l][c - 1] = " ")})
                  > 3 * chunk_size
            /\ \A l \in DOMAIN sections[n].text :
                  /\ \A c \in DOMAIN sections[n].text[l] : sections[n].text[l][c] # "fence"
                  /\ \A c \in 1..(Len(sections[n].text[l]) - 4) :
                        SubSeq(sections[n].text[l], c, c + 4) # <<"|", "-", "-", "-", "|">>]]

MaxSources == 2
MaxUrlTail == 3

\* vector/hybrid_search.py filter_results_by_metadata(results,
\* {'content_type': content_type}, min_score): the nodes whose score is not
\* below min_score and whose metadata content_type is the one asked for.
\* Scores are in tenths; a node's content_type is None when its metadata
\* has no such key.
filter_results_by_metadata(retrieval_results, content_type, min_score) ==
    SelectSeq(retrieval_results,
              LAMBDA node : /\ ~(node.score < min_score)
                            /\ node.content_type = Some(content_type))

\* mcp/tools/vector.py query_docs when the retriever answers a.nodes: the
\* dict returned. Without an index the call fails inside the try and the
\* error dict is returned.
query_docs(a) ==
    IF ~a.loadable
    THEN [error |-> Some(<<"Error during search">>), sources |-> <<>>]
    ELSE [error |-> None,
          sources |->
             LET source_nodes ==
                     IF a.content_filter # None /\ a.content_filter # Some(<<>>)
                     THEN filter_results_by_metadata(a.nodes, a.content_filter[1],
                                                     a.similarity_threshold)
                     ELSE a.nodes
             IN  [i \in DOMAIN source_nodes |->
                     [chunk_id |-> i,
                      score |-> source_nodes[i].score,
                      content_type |-> IF source_nodes[i].content_type = None
                                       THEN <<"unknown">>
                                       ELSE source_nodes[i].content_type[1]]]]

\* The most tokens of a page given to chunk_markdown.
MaxTokenCount == 9

InitCalls ==
    /\ input \in
          {<<"build_index", a>> :
              a \in [files : SUBSET {"docstore.json", "default__vector_store.json",
                                     "graph_store.json", "notes.txt"},
                     loadable : BOOLEAN, rebuild : BOOLEAN,
                     has_nodes : BOOLEAN, build_raises : BOOLEAN]}
          \cup
          {<<"process_docs", a>> :
              a \in [urls_map : {<<SiteRoot, SiteRoot \o <<"a">>, SiteRoot \o <<"b">>>>},
                     md : [1..3 -> {None, Some(<<"x">>), Some(<<"y", "y">>)}],
                     similar : SUBSET {<<1, 2>>, <<1, 3>>, <<2, 3>>},
                     hierarchy : {[title |-> <<"Home">>, url |-> SiteRoot, page |-> <<"s", ".md">>,
                                   children |->
                                      <<[title |-> <<"A">>, url |-> SiteRoot \o <<"a">>,
                                         page |-> <<"s-a", ".md">>, children |-> <<>>],
                                        [title |-> <<"B">>, url |-> SiteRoot \o <<"b">>,
                                         page |-> <<"s-b", ".md">>, children |-> <<>>]>>]}]}
          \cup
          {<<"get_nodes_from_documents", a>> :
              a \in [text : UNION {[1..n ->
                                      {<<"t", " ", "t">>, <<"#", " ", "h">>, <<"fence">>,
                                       <<"fence", "c", "+", "+">>, <<"|", "a", "|">>,
                                       <<"|", "-", "-", "-", "|">>, <<"|", ":", "-", "-", "|">>,
                                       <<"|", " ", "-", "-", "-", " ", "|">>}] :
                                   n \in 0..MaxDocLines},
                     chunk_size : {1}]}
          \cup
          {<<"query_docs", a>> :
              a \in [nodes : UNION {[1..n -> [score : {5, 7, 9},
                                              content_type : {None, Some(<<"code">>),
                                                              Some(<<"explanation">>)}]] :
                                    n \in 0..MaxSources},
                     similarity_threshold : {7},
                     content_filter : {None, Some(<<>>), Some(<<"code">>)},
                     loadable : BOOLEAN]}
          \cup
          {<<"normalize_url", <<"https://", "s">> \o tail>> :
              tail \in UNION {[1..n -> {"/", "a", ";", "p", "?", "#", ":443"}] :
                                n \in 0..MaxUrlTail}}
          \cup
          {<<"deduplicate", md, similar>> :
              md \in [1..3 -> {None, Some(<<"x">>), Some(<<"y", "y">>),
                               Some(<<"z", "z", "z">>)}],
              similar \in SUBSET {<<1, 2>>, <<1, 3>>, <<2, 3>>}}
          \cup
          {<<"chunk_markdown", kinds, cfg>> :
              kinds \in UNION {[1..n -> {"w", "h", "b"}] : n \in 3..(MaxTokenCount - 3)},
              cfg \in [max_tokens : {2, 4}, overlap : {0, 1, 2}]}
          \cup
          {<<"chunk_markdown", kinds, cfg>> :
              kinds \in UNION {[1..n -> {"w", "h"}] : n \in 9..MaxTokenCount},
              cfg \in [max_tokens : {8}, overlap : {0, 2}]}
          \cup
          {<<"chunk_markdown", [i \in 1..n |-> "w"], cfg>> :
              n \in {12, 25}, cfg \in [max_tokens : {11}, overlap : {0, 2}]}
          \cup
          {<<"link_filters", <<"https://", "s">> \o tail>> :
              tail \in UNION {[1..n -> {"/", "a", ".html", ".py", ".png", "raw"}] :
                                n \in 0..MaxUrlTail}}
          \cup
          {<<"url_to_filename", <<"https://", "s">> \o t1, <<scheme, "s">> \o t2>> :
              t1 \in UNION {[1..n -> {"/", "a", "-"}] : n \in 0..MaxUrlTail},
              scheme \in {"https://", "http://"},
              t2 \in UNION {[1..n -> {"/", "a", "?"}] : n \in 0..MaxUrlTail}}
    /\ output = <<>>
    /\ paragraph_hashes = <<>>
    /\ skip_hashes = {}
    /\ documents = <<>>
    /\ url_map = <<>>
    /\ hierarchy = <<>>
    /\ disk = <<>>
    /\ loaded = None
    /\ op = <<"init", 0>>
    /\ NoCrawl

BuildIndex ==
    /\ input[1] = "build_index" /\ output = <<>>
    /\ output' = <<build_index(input[2])>>
    /\ op' = <<"build_index", 0>>
    /\ UNCHANGED <<documents, url_map, hierarchy, disk, loaded>>
    /\ UNCHANGED <<paragraph_hashes, skip_hashes, input>>
    /\ UNCHANGED crawlVars

ProcessDocs ==
    /\ input[1] = "process_docs" /\ output = <<>>
    /\ output' = <<process_docs(input[2])>>
    /\ op' = <<"process_docs", 0>>
    /\ UNCHANGED <<documents, url_map, hierarchy, disk, loaded>>
    /\ UNCHANGED <<paragraph_hashes, skip_hashes, input>>
    /\ UNCHANGED crawlVars

GetNodes ==
    /\ input[1] = "get_nodes_from_documents" /\ output = <<>>
    /\ \E code \in {Preserved(input[2].text, 1)} :
          output' = get_nodes_from_documents(
                        parse(input[2].text, code \cup AfterTables(input[2].text, code, 1)),
                        input[2].chunk_size)
    /\ op' = <<"get_nodes_from_documents", 0>>
    /\ UNCHANGED <<documents, url_map, hierarchy, disk, loaded>>
    /\ UNCHANGED <<paragraph_hashes, skip_hashes, input>>
    /\ UNCHANGED crawlVars

QueryDocs ==
    /\ input[1] = "query_docs" /\ output = <<>>
    /\ output' = <<query_docs(input[2])>>
    /\ op' = <<"query_docs", 0>>
    /\ UNCHANGED <<documents, url_map, hierarchy, disk, loaded>>
    /\ UNCHANGED <<paragraph_hashes, skip_hashes, input>>
    /\ UNCHANGED crawlVars

\* normalize_url(url), and normalize_url of what it gave.
NormalizeUrl ==
    /\ input[1] = "normalize_url" /\ output = <<>>
    /\ \E once \in {normalize_url(input[2])} :
          output' = <<once, normalize_url(once)>>
    /\ op' = <<"normalize_url", 0>>
    /\ UNCHANGED <<documents, url_map, hierarchy, disk, loaded>>
    /\ UNCHANGED <<paragraph_hashes, skip_hashes, input>>
    /\ UNCHANGED crawlVars

\* is_html_doc(url) and should_skip_url(url) of one url.
LinkFilters ==
    /\ input[1] = "link_filters" /\ output = <<>>
    /\ output' = <<is_html_doc(input[2]), should_skip_url(input[2])>>
    /\ op' = <<"link_filters", 0>>
    /\ UNCHANGED <<documents, url_map, hierarchy, disk, loaded>>
    /\ UNCHANGED <<paragraph_hashes, skip_hashes, input>>
    /\ UNCHANGED crawlVars

\* The document ids create_documents_from_crawl derives from two urls,
\* beside the normalized forms of the two.
UrlToIdPair ==
    /\ input[1] = "url_to_filename" /\ output = <<>>
    /\ output' = <<UrlToId(input[2]), UrlToId(input[3]),
                   normalize_url(input[2]), normalize_url(input[3])>>
    /\ op' = <<"url_to_filename", 0>>
    /\ UNCHANGED <<documents, url_map, hierarchy, disk, loaded>>
    /\ UNCHANGED <<paragraph_hashes, skip_hashes, input>>
    /\ UNCHANGED crawlVars

\* docs_llm_scraper/chunker/markdown_chunker.py.  A token is a line of the
\* Markdown with its index in the list ENCODING.encode returns: a heading
\* line ("h"), a blank line ("b") or a line of text ("w").

\* MarkdownChunker._find_split_point(text, tokens), n being len(tokens): the
\* number of tokens before the last heading of text that lies inside the
\* chunk, else before the last match of the paragraph pattern, else half
\* the chunk if it has more than 10 tokens, else None.  The paragraph
\* pattern ^\s*$ matches at the first blank line of a run and, when text
\* goes on after the run, at its last one (\s* takes the lines between).
_find_split_point(text, n) ==
    LET at(kind) == {pos \in 1..(n - 1) : pos < Len(text) /\ text[pos + 1].kind = kind}
        breaks == {pos \in at("b") :
                      \/ text[pos].kind # "b"
                      \/ pos + 2 <= Len(text) /\ text[pos + 2].kind # "b"}
        last(set) == CHOOSE pos \in set : \A other \in set : other <= pos
    IN  IF at("h") # {} THEN Some(last(at("h")))
        ELSE IF breaks # {} THEN Some(last(breaks))
        ELSE IF n > 10 THEN Some(n \div 2)
        ELSE None

\* The end of chunk_markdown: the tokens from start_idx on are added to
\* the text of the last chunk.
WithRemaining(tokens, start_idx, chunks) ==
    IF start_idx < Len(tokens)
    THEN [chunks EXCEPT ![Len(chunks)].text = @ \o SubSeq(tokens, start_idx + 1, Len(tokens))]
    ELSE chunks

RECURSIVE ChunkLoop(_, _, _, _, _, _)
\* The while loop of chunk_markdown from one test of its condition on.
ChunkLoop(tokens, cfg, start_idx, last_start_idx, iterations, chunks) ==
    IF ~(start_idx < Len(tokens) /\ iterations < 2 * Len(tokens))
    THEN WithRemaining(tokens, start_idx, chunks)
    ELSE LET start == IF start_idx = last_start_idx
                      THEN start_idx + (cfg.max_tokens \div 2) ELSE start_idx
             whole == IF start + cfg.max_tokens < Len(tokens)
                      THEN start + cfg.max_tokens ELSE Len(tokens)
             lookahead == IF whole + 200 < Len(tokens) THEN whole + 200 ELSE Len(tokens)
             split_idx == IF whole < Len(tokens)
                          THEN _find_split_point(SubSeq(tokens, start + 1, lookahead),
                                                 whole - start)
                          ELSE None
             end_idx == IF split_idx # None THEN start + split_idx[1] ELSE whole
             new_start_idx == IF end_idx - cfg.overlap <= start
                              THEN start + (cfg.max_tokens \div 4)
                              ELSE end_idx - cfg.overlap
             added == Append(chunks, [text |-> SubSeq(tokens, start + 1, end_idx),
                                      position |-> Len(chunks)])
         IN  IF start >= Len(tokens) THEN WithRemaining(tokens, start, chunks)
             ELSE IF Len(tokens) - new_start_idx < cfg.max_tokens \div 4
             THEN WithRemaining(tokens, new_start_idx, added)
             ELSE ChunkLoop(tokens, cfg, new_start_idx, start, iterations + 1, added)

\* MarkdownChunker.chunk_markdown : the chunks, each with its text (the
\* tokens it decodes) and its position.
chunk_markdown(tokens, cfg) ==
    IF Len(tokens) <= cfg.max_tokens
    THEN <<[text |-> tokens, position |-> 0]>>
    ELSE ChunkLoop(tokens, cfg, 0, -1, 0, <<>>)

\* chunk_markdown on one page under one chunk configuration.
ChunkMarkdown ==
    /\ input[1] = "chunk_markdown" /\ output = <<>>
    /\ output' = <<chunk_markdown([i \in DOMAIN input[2] |-> [kind |-> input[2][i], at |-> i]],
                                  input[3])>>
    /\ op' = <<"chunk_markdown", 0>>
    /\ UNCHANGED <<documents, url_map, hierarchy, disk, loaded>>
    /\ UNCHANGED <<paragraph_hashes, skip_hashes, input>>
    /\ UNCHANGED crawlVars

\* Deduplicator.deduplicate on three processed entries: an entry whose
\* file is not found (no Markdown) is left out before the others are compared.
Deduplicate ==
    /\ input[1] = "deduplicate" /\ output = <<>>
    /\ output' = <<deduplicate(
                      SelectSeq([i \in 1..3 |->
                                    [idx |-> i,
                                     content |-> IF input[2][i] = None THEN <<>>
                                                 ELSE input[2][i][1]]],
                                LAMBDA e : input[2][e.idx] # None),
                      input[3])>>
    /\ op' = <<"deduplicate", 0>>
    /\ UNCHANGED <<documents, url_map, hierarchy, disk, loaded>>
    /\ UNCHANGED <<paragraph_hashes, skip_hashes, input>>
    /\ UNCHANGED crawlVars

SpecCalls ==
    InitCalls /\ [][BuildIndex \/ ProcessDocs \/ GetNodes \/ QueryDocs \/ NormalizeUrl
                      \/ LinkFilters \/ UrlToIdPair \/ Deduplicate \/ ChunkMarkdown]_vars

\* C15: build_index with rebuild false on a persist directory that holds
\* docstore.json but cannot be loaded clears the directory and attempts one
\* full rebuild, and raises only if that rebuild fails.
C15_UnloadableIndexRebuilt ==
    (op[1] = "build_index" /\ ~input[2].rebuild /\ ~input[2].loadable
        /\ "docstore.json" \in input[2].files) =>
        /\ output[1].cleared /\ output[1].chunked
        /\ output[1].result = "raise" <=> (input[2].has_nodes /\ input[2].build_raises)

\* C16: after process_docs has converted every page and removed the
\* duplicates, every node of the hierarchy it returns has the url of an
\* entry of the urls_map it returns.
C16_HierarchyWithinUrlsMap ==
    (op[1] = "process_docs" /\ \A i \in 1..3 : input[2].md[i] # None) =>
        \A i \in DOMAIN Flatten(<<output[1].hierarchy>>) :
            \E j \in DOMAIN output[1].urls_map :
                output[1].urls_map[j] = Flatten(<<output[1].hierarchy>>)[i].url

\* The fence lines among the first n lines of a text.
Fences(text, n) == {l \in 1..n : text[l][1] = "fence"}
\* A delimiter row of a pipe table, under a row: '|', then only '-', ':',
\* '|' and spaces, then '|'.
DelimiterRows(text) ==
    {l \in 2..Len(text) :
        /\ text[l - 1][1] = "|"
        /\ text[l][1] = "|" /\ text[l][Len(text[l])] = "|" /\ Len(text[l]) >= 3
        /\ \A c \in DOMAIN text[l] : text[l][c] \in {"|", "-", ":", " "}}

\* C17: no section that holds a fenced code block or a pipe table, whatever
\* the form of its delimiter row, is handed to the fallback splitter.
C17_CodeAndTablesNotSplit ==
    op[1] = "get_nodes_from_documents" =>
        \A n \in DOMAIN output :
            output[n].fallback =>
                /\ Fences(output[n].text, Len(output[n].text)) = {}
                /\ DelimiterRows(output[n].text) = {}

\* C18: of a text with an even number of fence lines every node holds an
\* even number of fences, and no section starts at a heading-like line
\* inside a fenced block (one with an odd number of fences above it).
C18_FencesStayTogether ==
    (op[1] = "get_nodes_from_documents"
        /\ Cardinality(Fences(input[2].text, Len(input[2].text))) % 2 = 0) =>
        \A n \in DOMAIN output :
            /\ Cardinality(Fences(output[n].text, Len(output[n].text))) % 2 = 0
            /\ output[n].start > 0 =>
                   Cardinality(Fences(input[2].text, output[n].start)) % 2 = 0

\* C19: every source query_docs returns has a score of at least
\* similarity_threshold, with or without a content_filter, and with a
\* content_filter every source has that content_type.
C19_SourcesAboveThreshold ==
    op[1] = "query_docs" =>
        \A i \in DOMAIN output[1].sources :
            /\ output[1].sources[i].score >= input[2].similarity_threshold
            /\ (input[2].content_filter # None /\ input[2].content_filter # Some(<<>>)) =>
                   output[1].sources[i].content_type = input[2].content_filter[1]

\* C20: normalize_url is idempotent: normalizing what it returned gives the
\* same url again.
C20_NormalizeUrlIdempotent ==
    op[1] = "normalize_url" => output[2] = output[1]

\* C21: normalize_url returns the url without fragment and without the
\* default port (":443" after the host of an https url).
C21_FragmentAndDefaultPortRemoved ==
    op[1] = "normalize_url" =>
        /\ \A i \in DOMAIN output[1] : output[1][i] # "#"
        /\ (Len(input[2]) >= 3 /\ input[2][3] = ":443") =>
               (Len(output[1]) < 3 \/ output[1][3] # ":443")

\* C22: is_html_doc(u) is true exactly when the path of u ends with
\* '.html' or '/' or is empty, and should_skip_url(u) is true for every
\* other url.
C22_HtmlBySuffix ==
    op[1] = "link_filters" =>
        LET path == urlparse(input[2]).path
            html == path = <<>> \/ path[Len(path)] \in {".html", "/"}
        IN  /\ output[1] <=> html
            /\ ~html => output[2]

\* C23: two urls with different normalized forms never receive the same
\* document id (url_to_filename(url) without ".html").
C23_IdInjectiveOnNormalized ==
    op[1] = "url_to_filename" =>
        (output[3] # output[4] => output[1] # output[2])

-----------------------------------------------------------------------------
(* The crawl under a configuration: allowed domains and path rules *)

\* is_url_allowed
is_url_allowed(url, allowed_domains, include_paths, exclude_paths) ==
    /\ allowed_domains # <<>> =>
           \E i \in DOMAIN allowed_domains : allowed_domains[i] = urlparse(url).netloc
    /\ \A i \in DOMAIN exclude_paths : ~StartsWith(urlparse(url).path, exclude_paths[i])
    /\ include_paths # <<>> =>
           \E i \in DOMAIN include_paths : StartsWith(urlparse(url).path, include_paths[i])

\* The links of a page that DocsSpider's LinkExtractor reports: those of an
\* allowed domain or of a subdomain of one, in which an `allow` pattern is
\* found if there is any, and no `deny` pattern.
extract_links(links, cfg) ==
    LET found(pat, url) == \E i \in 0..Len(url) : StartsWith(SubSeq(url, i + 1, Len(url)), pat)
        deny == cfg.exclude_paths \o
                <<<<"/", "_sources", "/">>, <<"/", "raw", "/">>, <<"/", "source", "/">>,
                  <<"/", "_static", "/">>, <<"/", "_downloads", "/">>>>
    IN  {l \in links :
            /\ \E i \in DOMAIN cfg.allowed_domains :
                  \/ urlparse(l).netloc = cfg.allowed_domains[i]
                  \/ EndsWith(urlparse(l).netloc, <<".">> \o cfg.allowed_domains[i])
            /\ cfg.include_paths # <<>> =>
                  \E i \in DOMAIN cfg.include_paths : found(cfg.include_paths[i], l)
            /\ \A i \in DOMAIN deny : ~found(deny[i], l)}

\* The site crawled under a configuration: the urls its pages link to, one
\* of them on a subdomain, and the url of the response to a request (the
\* site redirects one page to another host).
CfgSiteUrls == {SiteRoot \o <<"a", "/">>, SiteRoot \o <<"b">>,
                <<"https://", "d", ".", "s", "/", "a", "/">>}
ResponseUrls(url) ==
    IF url = SiteRoot \o <<"b">> THEN {url, <<"https://", "t", "/", "b">>} ELSE {url}

\* State before the crawl of process_crawl(start_url, config): the site
\* configuration (allowed_domains is the start url's host) and one start
\* request.
InitCrawlCfg ==
    /\ paragraph_hashes = <<>>
    /\ skip_hashes = {}
    /\ output = <<>>
    /\ input \in {<<"crawl", [allowed_domains |-> <<urlparse(SiteRoot).netloc>>,
                             include_paths |-> inc, exclude_paths |-> exc]>> :
                     inc \in {<<>>, <<<<"/", "a", "/">>>>},
                     exc \in {<<>>, <<<<"/", "b">>>>}}
    /\ documents = <<>>
    /\ url_map = <<>>
    /\ hierarchy = <<>>
    /\ disk = <<>>
    /\ loaded = None
    /\ op = <<"crawl", 0>>
    /\ urls_map = <<>>
    /\ page_info = <<>>
    /\ parent_map = <<>>
    /\ out_files = <<>>
    /\ seen = {}
    /\ deliveries = <<>>
    /\ closed = {}
    /\ page_hierarchy = None
    /\ root_url = Some(normalize_url(SiteRoot))
    /\ frontier = {[url |-> SiteRoot, depth |-> 0, parent |-> None]}

\* One response reaches DocsSpider.parse under the configuration: as Parse,
\* with the response's url, the links the LinkExtractor reports and the
\* path rules of the configuration.
ParseCfg ==
    /\ op[1] = "crawl"
    /\ \E r \in frontier, links \in SUBSET extract_links(CfgSiteUrls, input[2]) :
       \E url \in ResponseUrls(r.url) :
       \E item \in {ParseItem(url, r.depth, r.parent, root_url[1], SiteTitle(url))} :
       \E after \in {process_item(Pipeline, item)} :
       \E fresh \in {{l \in links : /\ ~should_skip_url(l)
                                    /\ is_html_doc(l)
                                    /\ should_follow_url(l, input[2].include_paths,
                                                         input[2].exclude_paths)
                                    /\ request_fingerprint(l) \notin seen}} :
            IF should_skip_url(url)
            THEN /\ links = {}
                 /\ frontier' = frontier \ {r}
                 /\ UNCHANGED <<urls_map, page_info, parent_map, out_files, seen, deliveries>>
            ELSE /\ urls_map' = after.urls_map
                 /\ page_info' = after.page_info
                 /\ parent_map' = after.parent_map
                 /\ out_files' = after.out_files
                 /\ deliveries' = Append(deliveries, item)
                 /\ IF AtDepthLimit(r.depth)
                    THEN /\ links = {}
                         /\ frontier' = frontier \ {r}
                         /\ seen' = seen
                    ELSE /\ frontier' = (frontier \ {r}) \cup
                                {[url |-> l, depth |-> r.depth + 1, parent |-> Some(item.url)] :
                                    l \in fresh}
                         /\ seen' = seen \cup {request_fingerprint(l) : l \in fresh}
    /\ UNCHANGED <<closed, root_url, page_hierarchy>>
    /\ UNCHANGED stateVars
    /\ UNCHANGED callVars

SpecCrawlCfg == InitCrawlCfg /\ [][ParseCfg]_vars

\* C24: every page record other than the one of the start url has a url
\* that is_url_allowed accepts for the crawl's configuration.
C24_RecordsAllowed ==
    \A i \in DOMAIN deliveries :
        deliveries[i].url # root_url[1] =>
            is_url_allowed(deliveries[i].url, input[2].allowed_domains,
                           input[2].include_paths, input[2].exclude_paths)

\* C25: the crawl is depth-bounded: the first response is parsed at depth 0,
\* a request made from a page parsed at depth d below max_depth carries
\* depth d + 1, and every page record has a depth of at most max_depth.
C25_DepthBounded ==
    /\ deliveries # <<>> => deliveries[1].depth = 0
    /\ \A i \in DOMAIN deliveries : deliveries[i].depth <= CfgMaxDepth
    /\ \A r \in frontier :
          \/ r.depth = 0 /\ r.parent = None
          \/ \E i \in DOMAIN deliveries :
                /\ r.parent = Some(deliveries[i].url)
                /\ r.depth = deliveries[i].depth + 1
                /\ deliveries[i].depth < CfgMaxDepth

\* A page was parsed at the depth limit, after one at each depth below it,
\* and no request is left.
C25_Witness ==
    /\ frontier = {}
    /\ \A d \in 0..CfgMaxDepth : \E i \in DOMAIN deliveries : deliveries[i].depth = d

\* C26: run_pipeline saves the state between the stages: the state the
\* scrape stage returned before the markify stage, the state the markify
\* stage returned before the annotate stage, and the state after the
\* annotate stage, whether it raised or not, before the vector index; the
\* files then hold the state saved last.
C26_SavedBetweenStages ==
    op[1] = "run_pipeline" =>
        LET r == output[1]
            entered(stage) == \E i \in DOMAIN r.ran : r.ran[i] = stage
            scraped == [documents |-> documents, url_map |-> url_map,
                        hierarchy |-> build_hierarchy(documents)]
            written == save(r.saved[Len(r.saved)], <<>>)
        IN  /\ entered("markify") => Len(r.saved) >= 1 /\ r.saved[1] = scraped
            /\ entered("annotate") =>
                  /\ Len(r.saved) = 3
                  /\ r.saved[2] = markify_stage(scraped, {})
                  /\ r.saved[3] = IF input[1] = "annotate" THEN r.saved[2]
                                  ELSE annotate_stage(r.saved[2])
            /\ r.saved # <<>> =>
                  \A n \in DOMAIN written : n \in DOMAIN disk /\ disk[n] = written[n]

\* run_pipeline ran on html documents and its annotate stage raised.
C26_Witness ==
    /\ op[1] = "run_pipeline"
    /\ input[1] = "annotate"
    /\ \E i \in DOMAIN documents : TypeOf(documents[i].v) = <<"html">>
    /\ Len(output[1].saved) = 3

-----------------------------------------------------------------------------
(* mcp/tools/scrape.py : the scrape tool and its crawler thread *)

\* The writes of the crawler thread to the two files the tool reports, in
\* order: the two close_spider of the crawl, then save_json and save_jsonl
\* of run_crawler.  Each opens the file with mode "w", which empties it, and
\* the data is in the file when it is closed.
CrawlerWrites ==
    <<<<"urls_map.jsonl">>, <<"page_hierarchy.json">>,
      <<"page_hierarchy.json">>, <<"urls_map.jsonl">>>>

\* The file the crawler thread has open for writing after n steps, if any.
WritingFile(n) ==
    IF n % 2 = 1 /\ n < 2 * Len(CrawlerWrites) THEN Some(CrawlerWrites[(n + 1) \div 2]) ELSE None

\* The scrape tool has started the crawler thread and waits in join(timeout):
\* input is the call, the tool's position and the steps the thread has done.
\* The crawl finds one page or two; the output directory is new, or holds
\* the files of an earlier scrape.
InitScrapeTool ==
    /\ paragraph_hashes = <<>>
    /\ skip_hashes = {}
    /\ output = <<>>
    /\ input = <<"scrape_tool", "join", 0>>
    /\ documents = <<>>
    /\ url_map = <<>>
    /\ hierarchy = <<>>
    /\ disk = <<>>
    /\ loaded = None
    /\ op = <<"scrape_tool", 0>>
    /\ \E pages \in {<<SiteRoot>>, <<SiteRoot, SiteRoot \o <<"a">>>>} :
          urls_map = [i \in DOMAIN pages |->
                         [url |-> pages[i], file |-> <<"raw_html/">> \o url_to_filename(pages[i]),
                          title |-> _url_to_title(pages[i])]]
    /\ page_info = <<>>
    /\ parent_map = <<>>
    /\ out_files \in {<<>>,
                      [n \in {<<"urls_map.jsonl">>, <<"page_hierarchy.json">>} |-> <<"old">>]}
    /\ frontier = {}
    /\ seen = {}
    /\ deliveries = <<>>
    /\ closed = {}
    /\ root_url = Some(SiteRoot)
    /\ page_hierarchy = Some([url |-> SiteRoot, title |-> <<"H", "o", "m", "e">>,
                              page |-> <<"s", ".md">>, children |-> <<>>])

\* One step of the crawler thread (run_crawler): it opens the next file for
\* writing or writes and closes the one it has open; after the last write
\* it sets thread_result and ends.
CrawlerThread ==
    /\ input[1] = "scrape_tool"
    /\ input[3] <= 2 * Len(CrawlerWrites)
    /\ input' = [input EXCEPT ![3] = @ + 1]
    /\ \E file \in {CrawlerWrites[IF input[3] = 2 * Len(CrawlerWrites) THEN 1
                                  ELSE (input[3] \div 2) + 1]} :
       \E data \in {IF input[3] % 2 = 0 THEN <<>>
                    ELSE IF file = <<"urls_map.jsonl">> THEN urls_map
                    ELSE page_hierarchy[1]} :
          out_files' = IF input[3] = 2 * Len(CrawlerWrites) THEN out_files
                       ELSE [n \in DOMAIN out_files \cup {file} |->
                                IF n = file THEN data ELSE out_files[n]]
    /\ UNCHANGED <<urls_map, page_info, parent_map, frontier, seen, deliveries, closed,
                   root_url, page_hierarchy>>
    /\ UNCHANGED <<paragraph_hashes, skip_hashes, output>>
    /\ UNCHANGED stateVars

\* crawler_thread.join(timeout) returns: the thread has ended and the tool
\* returns thread_result, or the thread is still alive.
ToolJoin ==
    /\ input[1] = "scrape_tool" /\ input[2] = "join"
    /\ IF input[3] > 2 * Len(CrawlerWrites)
       THEN /\ input' = [input EXCEPT ![2] = "returned"]
            /\ output' = <<[success |-> TRUE, timeout_occurred |-> FALSE,
                            url_count |-> Len(urls_map)]>>
       ELSE /\ input' = [input EXCEPT ![2] = "timeout"]
            /\ output' = output
    /\ UNCHANGED <<paragraph_hashes, skip_hashes>>
    /\ UNCHANGED crawlVars
    /\ UNCHANGED stateVars

\* After the timeout: without both files the tool returns a failure, with
\* them load_jsonl opens urls_map.jsonl.
ToolCheck ==
    /\ input[1] = "scrape_tool" /\ input[2] = "timeout"
    /\ IF {<<"urls_map.jsonl">>, <<"page_hierarchy.json">>} \subseteq DOMAIN out_files
       THEN /\ input' = [input EXCEPT ![2] = "reading"]
            /\ output' = output
       ELSE /\ input' = [input EXCEPT ![2] = "returned"]
            /\ output' = <<[success |-> FALSE, timeout_occurred |-> TRUE, url_count |-> 0]>>
    /\ UNCHANGED <<paragraph_hashes, skip_hashes>>
    /\ UNCHANGED crawlVars
    /\ UNCHANGED stateVars

\* load_jsonl reads the lines the file holds and the tool returns the
\* partial results.
ToolRead ==
    /\ input[1] = "scrape_tool" /\ input[2] = "reading"
    /\ input' = [input EXCEPT ![2] = "returned"]
    /\ output' = <<[success |-> TRUE, timeout_occurred |-> TRUE,
                    url_count |-> Len(out_files[<<"urls_map.jsonl">>])]>>
    /\ UNCHANGED <<paragraph_hashes, skip_hashes>>
    /\ UNCHANGED crawlVars
    /\ UNCHANGED stateVars

SpecScrapeTool ==
    InitScrapeTool /\ [][CrawlerThread \/ ToolJoin \/ ToolCheck \/ ToolRead]_vars

\* The tool has returned partial results.
ReturnedPartial == output # <<>> /\ output[1].success /\ output[1].timeout_occurred

\* C27: when the scrape tool returns partial results after its timeout,
\* its read of urls_map.jsonl overlapped no write of the crawler thread,
\* the two files are complete, and the crawler thread does not change them
\* once the tool has returned.
C27_PartialSnapshotStable ==
    /\ [](input[2] = "reading" => WritingFile(input[3]) # Some(<<"urls_map.jsonl">>))
    /\ [](ReturnedPartial =>
             /\ WritingFile(input[3]) = None
             /\ \A n \in {<<"urls_map.jsonl">>, <<"page_hierarchy.json">>} : out_files[n] # <<>>)
    /\ [][ReturnedPartial => out_files' = out_files]_vars

\* C28: after build_hierarchy every document of the state appears at least
\* once in the hierarchy.
C28_EveryDocumentInHierarchy ==
    Built => \A i \in DOMAIN documents :
                 Occurrences(hierarchy.children, documents[i].k) # {}

\* C29: every entry deduplicate removes as a near-duplicate is similar to
\* an entry it retains, and the result is not empty when a file of the
\* input can be read.
C29_RemovedHasRetainedSimilar ==
    op[1] = "deduplicate" =>
        LET retained == {output[1][i].idx : i \in DOMAIN output[1]}
            first == {i \in 1..3 : /\ input[2][i] # None
                                   /\ \A j \in 1..(i - 1) : input[2][j] # input[2][i]}
        IN  /\ \A e \in first \ retained :
                  \E r \in retained : <<r, e>> \in input[3] \/ <<e, r>> \in input[3]
            /\ (\E i \in 1..3 : input[2][i] # None) => output[1] # <<>>

\* C30: chunk_markdown drops no content: every token of an input longer
\* than max_tokens is in the text of at least one chunk.
C30_EveryTokenInSomeChunk ==
    op[1] = "chunk_markdown" /\ Len(input[2]) > input[3].max_tokens =>
        \A i \in DOMAIN input[2] :
            \E c \in DOMAIN output[1] :
                \E j \in DOMAIN output[1][c].text : output[1][c].text[j].at = i

====
